---- MODULE Spec2Model ----
(***************************************************************************)
(* mtgimg: the image-resolution pipeline.                                  *)
(*                                                                         *)
(*   SpecReq  the pure part: SizeSlug / IMAGE_SIZE_MAP and ImageRequest    *)
(*            (construction, identity, name, path, spawn)                  *)
(*   Spec     the concurrent part: the TaskAwaiter slot maps and the       *)
(*            sources Fetcher, Cropper, ReSizer, ImageableProcessor run by *)
(*            concurrent loader tasks against one disk cache               *)
(***************************************************************************)
EXTENDS Integers, Sequences, FiniteSets, TLC

VARIABLES
    \* ---- SpecReq ----
    ra,        \* the receiver: an ImageRequest, as its attribute dictionary
    ra0,       \* the receiver as it was when constructed
    rb,        \* a second ImageRequest: constructed, or returned by spawn
    kw,        \* the keyword arguments of the last spawn call
    sz,        \* the last size lookup: [slug, crop, size]
    built,     \* the last pipeline built: by get_pipeline, by load.py's Loader
    rop,       \* the last operation applied
    \* ---- SpecCard ----
    cin,       \* a card and a request for it, as fetch.py and crop.py read them
    cout,      \* what was last computed from cin: [op, uri, load_uri, branch, size]
    \* ---- Spec ----
    impl,      \* which sources run: "pipeline" (pipeline.py) or "load" (load.py)
    lruOn,     \* ImageLoader was built with an image_cache_size
    lru,       \* ImageLoader's lru_cache of _get_image: <<[req, task], ...>>
    disk,      \* the files of the disk cache: path -> image
    tasks,     \* for each source class, TaskAwaiter._map: request -> slot
    lock,      \* for each source class, the holder of TaskAwaiter._lock, or 0
    slots,     \* the EventWithValue objects created so far
    stack,     \* for each loader task, its call stack of get_image frames
    outcome,   \* for each call of the loader, what its promise resolved to
    asked,     \* for each call, the request it made
    handle,    \* for each call, the task whose promise it was handed
    hitFailed, \* for each call: the promise it was handed had already failed
    staleGet,  \* some get_condition returned a slot that was already signalled
    deadGet,   \* some get_condition returned a slot its owner had left unset
    faults,    \* the failures injected so far
    seq,       \* the calls are made one after another (SpecSeq)
    seen,      \* for each call, the files on disk when it was made
    trace,     \* for each task, its disk lookups, disk writes and remote
               \* fetches in order: <<[st, ev, path], ...>>
    dirs,      \* the directories that exist
    pool       \* the workers of the imageable pool; 0: more than there are calls

reqVars == <<ra, ra0, rb, kw, sz, built, rop, cin, cout>>
concVars == <<impl, lruOn, lru, disk, tasks, lock, slots, stack, outcome,
              asked, handle, hitFailed, staleGet, deadGet, faults, seq, seen,
              trace, dirs, pool>>
vars == <<reqVars, concVars>>

-----------------------------------------------------------------------------
(* SizeSlug and IMAGE_SIZE_MAP                                             *)

SizeSlug == {"ORIGINAL", "MEDIUM", "SMALL", "THUMBNAIL"}

\* SizeSlug.code
Code(slug) ==
    CASE slug = "ORIGINAL" -> ""
      [] slug = "MEDIUM" -> "m"
      [] slug = "SMALL" -> "s"
      [] slug = "THUMBNAIL" -> "t"

\* SizeSlug.scale, in hundredths: 1, .5, .3, .15
ScalePct(slug) ==
    CASE slug = "ORIGINAL" -> 100
      [] slug = "MEDIUM" -> 50
      [] slug = "SMALL" -> 30
      [] slug = "THUMBNAIL" -> 15

\* The two entries IMAGE_SIZE_MAP starts with: ORIGINAL, uncropped and cropped.
OriginalSize(cropped) == IF cropped THEN <<560, 435>> ELSE <<745, 1040>>

\* A scaling that rounds up, where the code truncates.
ScaleDimensionUp(dimension, slug) == (dimension * ScalePct(slug) + 99) \div 100

\* int(dimension * size_slug.scale): truncation of a non-negative product.
\* (The products of the table are the same in binary floating point.)
ScaleDimension(dimension, slug) == (dimension * ScalePct(slug)) \div 100

\* IMAGE_SIZE_MAP after the update: every (size_slug, crop), ORIGINAL included.
IMAGE_SIZE_MAP ==
    [k \in SizeSlug \X BOOLEAN |->
        <<ScaleDimension(OriginalSize(k[2])[1], k[1]),
          ScaleDimension(OriginalSize(k[2])[2], k[1])>>]

\* SizeSlug.get_size(cropped)
get_size(slug, cropped) == IMAGE_SIZE_MAP[<<slug, cropped>>]

\* round(n / d) for n >= 0, d > 0, ties to even (Python's round).
Round(n, d) ==
    LET q == n \div d
        r == n % d
    IN  IF 2 * r < d THEN q
        ELSE IF 2 * r > d THEN q + 1
        ELSE IF q % 2 = 0 THEN q ELSE q + 1

-----------------------------------------------------------------------------
(* ImageRequest                                                            *)

\* None, where a string or a sequence is expected.
None == <<>>

\* The subjects: no subject, two printings, one imageable.  A printing has an
\* id and a cardboard with front_cards and back_cards (front, back: non-empty);
\* an imageable has get_image_name(), get_image_dir_name() and has_back().
NoPictured == [kind |-> "None", id |-> 0, front |-> FALSE, back |-> FALSE, name |-> ""]
Printing1 == [kind |-> "Printing", id |-> 12345, front |-> TRUE, back |-> FALSE, name |-> ""]
Printing2 == [kind |-> "Printing", id |-> 789, front |-> TRUE, back |-> TRUE, name |-> ""]
Imageable1 == [kind |-> "Imageable", id |-> 0, front |-> FALSE, back |-> TRUE, name |-> "cube"]
\* An Imageable whose get_image asks the loader it is handed for the image of
\* Imageable1 and waits for it.
Imageable2 == [kind |-> "Imageable", id |-> 0, front |-> FALSE, back |-> TRUE, name |-> "deck"]

Pictureds == {NoPictured, Printing1, Printing2, Imageable1}
PicturedTypes == {"Printing", "Imageable"}

\* picture_name as passed to the constructor: None, a str, or something else.
PictureNameArgs ==
    { [tag |-> "None", s |-> "", n |-> 0],
      [tag |-> "str", s |-> "n", n |-> 0],
      [tag |-> "int", s |-> "", n |-> 7] }

\* The keyword arguments of ImageRequest.__init__.
ArgSpace ==
    [pictured : Pictureds, pictured_type : PicturedTypes,
     picture_name : PictureNameArgs, back : BOOLEAN, crop : BOOLEAN,
     size_slug : SizeSlug, save : BOOLEAN, cache_only : BOOLEAN,
     allow_disk_cached : BOOLEAN]

\* The instance attributes __init__ sets.
Attrs ==
    {"_pictured", "_pictured_type", "_pictured_name", "_back", "_crop",
     "_size_slug", "_save", "_cache_only", "_allow_disk_cached"}

\* ImageRequest.__init__
NewImageRequest(a) ==
    [k \in Attrs |->
        CASE k = "_pictured" -> a.pictured
          [] k = "_pictured_type" ->
                IF a.pictured.kind = "None" THEN a.pictured_type ELSE a.pictured.kind
          [] k = "_pictured_name" ->
                IF a.picture_name.tag = "None" THEN None
                ELSE IF a.picture_name.tag = "str" THEN <<a.picture_name.s>>
                ELSE <<ToString(a.picture_name.n)>>
          [] k = "_back" -> a.back
          [] k = "_crop" -> a.crop
          [] k = "_size_slug" -> a.size_slug
          [] k = "_save" -> a.save
          [] k = "_cache_only" -> a.cache_only
          [] k = "_allow_disk_cached" -> a.allow_disk_cached]

\* Every request __init__ can build.
ReqSpace == {NewImageRequest(a) : a \in ArgSpace}

\* has_image raises AttributeError: no picture name, and the subject is None,
\* so that self._pictured.cardboard fails.
HasImageRaises(r) == r["_pictured_name"] = None /\ r["_pictured"].kind = "None"

\* ImageRequest.has_image, where it returns.
has_image(r) ==
    IF r["_pictured_name"] # None THEN TRUE
    ELSE IF r["_back"] THEN r["_pictured"].back
    ELSE IF r["_pictured"].kind = "Imageable" THEN TRUE
    ELSE r["_pictured"].front

\* ImageRequest._identifier
Identifier(r) ==
    IF r["_pictured_name"] # None THEN r["_pictured_name"][1]
    ELSE IF r["_pictured"].kind = "Imageable" THEN r["_pictured"].name
    ELSE ToString(r["_pictured"].id)

\* A name that puts the size code before the crop mark.
NameSizeBeforeCrop(r) ==
    (IF has_image(r)
        THEN Identifier(r) \o (IF r["_back"] THEN "_b" ELSE "")
        ELSE "cardback")
    \o (IF Code(r["_size_slug"]) # "" THEN "_" \o Code(r["_size_slug"]) ELSE "")
    \o (IF r["_crop"] THEN "_crop" ELSE "")

\* ImageRequest._name_no_extension
NameNoExtension(r) ==
    (IF has_image(r)
        THEN Identifier(r) \o (IF r["_back"] THEN "_b" ELSE "")
        ELSE "cardback")
    \o (IF r["_crop"] THEN "_crop" ELSE "")
    \o (IF Code(r["_size_slug"]) # "" THEN "_" \o Code(r["_size_slug"]) ELSE "")

\* ImageRequest.extension
Extension == "png"

\* The outcome of a property: a value, or the exception it raises.
Returns(v) == [exc |-> "", v |-> v]
Raises(e) == [exc |-> e, v |-> ""]

\* ImageRequest.name
Name(r) ==
    IF HasImageRaises(r) THEN Raises("AttributeError")
    ELSE Returns(NameNoExtension(r) \o "." \o Extension)

\* paths.IMAGES_PATH and paths.CARD_BACK_DIRECTORY_PATH
IMAGES_PATH == "images"
CARD_BACK_DIRECTORY_PATH == "cardback"

\* get_image_dir_name() of the one imageable class.
ImageDirName == "cubes"

\* ImageRequest._get_imageable_dir_path
ImageableDirPath == IMAGES_PATH \o "/" \o "_" \o ImageDirName

\* ImageRequest.dir_path
DirPath(r) ==
    IF r["_pictured_name"] # None
    THEN Returns(IF r["_pictured_type"] = "Imageable"
                    THEN ImageableDirPath ELSE IMAGES_PATH)
    ELSE IF HasImageRaises(r) THEN Raises("AttributeError")
    ELSE IF has_image(r)
    THEN Returns(IF r["_pictured"].kind = "Imageable"
                    THEN ImageableDirPath ELSE IMAGES_PATH)
    ELSE Returns(CARD_BACK_DIRECTORY_PATH)

\* ImageRequest.path: os.path.join(dir_path, name)
Path(r) ==
    IF DirPath(r).exc # "" THEN DirPath(r)
    ELSE IF Name(r).exc # "" THEN Name(r)
    ELSE Returns(DirPath(r).v \o "/" \o Name(r).v)

\* ImageRequest.size
Size(r) == IMAGE_SIZE_MAP[<<r["_size_slug"], r["_crop"]>>]

\* An __eq__ that compares what the first version of the request had.
ReqEqThree(a, b) ==
    /\ a["_pictured"] = b["_pictured"]
    /\ a["_back"] = b["_back"]
    /\ a["_crop"] = b["_crop"]

\* ImageRequest.__eq__
ReqEq(a, b) ==
    /\ a["_pictured"] = b["_pictured"]
    /\ a["_pictured_type"] = b["_pictured_type"]
    /\ a["_pictured_name"] = b["_pictured_name"]
    /\ a["_back"] = b["_back"]
    /\ a["_crop"] = b["_crop"]
    /\ a["_size_slug"] = b["_size_slug"]
    /\ a["_save"] = b["_save"]
    /\ a["_cache_only"] = b["_cache_only"]
    /\ a["_allow_disk_cached"] = b["_allow_disk_cached"]

\* ImageRequest.__hash__: the hash of this tuple.
ReqHash(r) ==
    <<r["_pictured"], r["_pictured_type"], r["_pictured_name"], r["_back"],
      r["_crop"], r["_size_slug"], r["_save"], r["_cache_only"],
      r["_allow_disk_cached"]>>

\* The keyword names spawn is called with: the constructor's parameter names,
\* and pictured_name, the name of the attribute and of the property.
SpawnKeys ==
    {"pictured", "pictured_type", "picture_name", "pictured_name", "back",
     "crop", "size_slug", "save", "cache_only", "allow_disk_cached"}

\* The values a keyword is given.
KwValues(key) ==
    CASE key = "pictured" -> Pictureds
      [] key = "pictured_type" -> PicturedTypes
      [] key \in {"picture_name", "pictured_name"} -> {None, <<"m">>}
      [] key = "size_slug" -> SizeSlug
      [] OTHER -> BOOLEAN

\* No keyword arguments.
NoKw == [key \in {} |-> TRUE]

\* The keyword arguments with exactly one keyword.
Kw1 == UNION {{key :> v : v \in KwValues(key)} : key \in SpawnKeys}

\* The keyword arguments with at most n keywords.
RECURSIVE KwSpace(_)
KwSpace(n) ==
    IF n = 0 THEN {NoKw}
    ELSE KwSpace(n - 1) \cup
         {f @@ g : <<f, g>> \in
            {p \in KwSpace(n - 1) \X Kw1 : DOMAIN p[1] \cap DOMAIN p[2] = {}}}

\* dict.update of the attribute dictionary d with {'_' + key: value}.
DictUpdate(d, kwargs) ==
    LET new == {"_" \o key : key \in DOMAIN kwargs}
    IN  [k \in DOMAIN d \cup new |->
            IF k \in new
            THEN kwargs[CHOOSE key \in DOMAIN kwargs : k = "_" \o key]
            ELSE d[k]]

\* ImageRequest.spawn: the receiver after the call, and the request returned
\* (copy.copy gives the copy a dictionary of its own).
spawn(r, kwargs) == [self |-> r, new |-> DictUpdate(r, kwargs)]

-----------------------------------------------------------------------------
(* Images, results, the disk cache                                         *)

\* crop.CROPPED_SIZE
CROPPED_SIZE == <<560, 435>>

\* An image: whose picture it is and its geometry.
NoImg == [subject |-> NoPictured, back |-> FALSE, cropped |-> FALSE, size |-> <<0, 0>>]

\* What a call returns or raises: an image, None, or an exception.
Val(img) == [k |-> "val", img |-> img, err |-> ""]
NoneRes == [k |-> "none", img |-> NoImg, err |-> ""]
Err(e) == [k |-> "err", img |-> NoImg, err |-> e]
\* A promise not yet resolved, a call not yet made, a call handed a cached promise.
Pending == [k |-> "pending", img |-> NoImg, err |-> ""]
Idle == [k |-> "idle", img |-> NoImg, err |-> ""]
Alias == [k |-> "alias", img |-> NoImg, err |-> ""]

\* get_scryfall_image, what can go wrong: the card request fails in transport
\* or comes back not ok; its body is not JSON or lacks the fields read; the
\* image request fails in transport or comes back not ok; the image body
\* cannot be decoded.
FetchFailures ==
    {"transport", "status", "json", "fields", "image_transport", "image_status",
     "decode"}

\* get_scryfall_image, what it raises then: the requests and the field lookups
\* are inside try/except and the status checks raise ImageFetchException;
\* response.json(), Image.open and load are outside any try.
FetchRaises(kind) ==
    CASE kind = "json" -> "JSONDecodeError"
      [] kind = "decode" -> "UnidentifiedImageError"
      [] OTHER -> "ImageFetchException"

\* get_scryfall_image, when every request succeeds: the face, at ORIGINAL size.
FetchedImage(req) ==
    [subject |-> req["_pictured"], back |-> req["_back"], cropped |-> FALSE,
     size |-> get_size("ORIGINAL", FALSE)]

\* Imageable.get_image(size, loader, back, crop) followed by the resize to size
\* when the imageable returned another size.
RenderedImage(req, size) ==
    [subject |-> req["_pictured"], back |-> req["_back"],
     cropped |-> req["_crop"], size |-> size]

\* PIL on the sizes of images: Image.crop(box) returns the box's width and
\* height wherever the box lies; rotate by 90 degrees with expand swaps width
\* and height; resize returns the size asked for; paste leaves the size of the
\* image pasted into.
ImageCrop(size, box) == <<box[3] - box[1], box[4] - box[2]>>
ImageRotate(size) == <<size[2], size[1]>>
ImageResize(size, to) == to
ImagePaste(size, pasted, at) == size

\* A standard crop that cuts one row less.
CropStandardShort(size) == ImageCrop(size, <<92, 120, 652, 554>>)

\* crop._crop_standard
crop_standard(size) == ImageCrop(size, <<92, 120, 652, 555>>)

\* crop._split_horizontal: a canvas of width by height; each image's left
\* part is pasted side by side.
split_horizontal(width, height, images) ==
    LET offset == width \div Len(images)
        Pasted[i \in 0..Len(images)] ==
            IF i = 0 THEN <<width, height>>
            ELSE ImagePaste(Pasted[i - 1],
                            ImageCrop(images[i], <<0, 0, offset, height>>),
                            <<(i - 1) * offset, 0>>)
    IN  Pasted[Len(images)]

\* crop._crop_split
crop_split(size) ==
    split_horizontal(CROPPED_SIZE[1], CROPPED_SIZE[2],
        <<ImageResize(ImageRotate(ImageCrop(size, <<96, 82, 345, 454>>)), <<650, 435>>),
          ImageResize(ImageRotate(ImageCrop(size, <<96, 582, 345, 954>>)), <<650, 435>>)>>)

\* crop._crop_flip
crop_flip(size) == ImageResize(ImageCrop(size, <<141, 325, 604, 685>>), CROPPED_SIZE)

\* crop._crop_aftermath
crop_aftermath(size) ==
    LET top == ImageCrop(size, <<92, 120, 652, 332>>)
        bot == ImageCrop(size, <<408, 590, 620, 950>>)
        both == ImagePaste(top, ImageRotate(bot), <<top[1] \div 2, 0>>)
    IN  ImageCrop(ImageResize(both, <<1149, 435>>), <<294, 0, 854, 435>>)

\* crop._crop_saga, _crop_room, _crop_class, _crop_battle: a column of the
\* card, turned, resized and cut.
CropColumn(size, box) ==
    ImageCrop(ImageResize(ImageRotate(ImageCrop(size, box)), <<1052, 435>>),
              <<246, 0, 806, 435>>)
crop_saga(size) == CropColumn(size, <<373, 115, 686, 872>>)
crop_room(size) == CropColumn(size, <<105, 60, 390, 936>>)
crop_class(size) == CropColumn(size, <<58, 115, 371, 872>>)
crop_battle(size) == CropColumn(size, <<103, 115, 416, 872>>)

\* crop.crop(image, image_request): which crop is applied.  c: what crop reads
\* of the request and of its printing's cardboard.
CropBranch(c) ==
    IF c.subject # "Printing" THEN "fallback"
    ELSE IF c.layout = "STANDARD" THEN "standard"
    ELSE IF "BATTLE" \in c.types /\ ~c.back THEN "battle"
    ELSE IF c.layout = "SAGA" \/ "SAGA" \in c.types THEN "saga"
    ELSE IF c.layout = "SPLIT" /\ c.fronts = 2
         THEN (IF "ROOM" \in c.types THEN "room" ELSE "split")
    ELSE IF c.layout = "FLIP" THEN "flip"
    ELSE IF c.layout = "AFTERMATH" /\ c.fronts = 2 THEN "aftermath"
    ELSE IF c.layout = "CLASS" THEN "class"
    ELSE "fallback"

\* crop.crop(image, image_request): the size of the image returned.
CropFor(size, c) ==
    CASE CropBranch(c) = "battle" -> crop_battle(size)
      [] CropBranch(c) = "saga" -> crop_saga(size)
      [] CropBranch(c) = "room" -> crop_room(size)
      [] CropBranch(c) = "split" -> crop_split(size)
      [] CropBranch(c) = "flip" -> crop_flip(size)
      [] CropBranch(c) = "aftermath" -> crop_aftermath(size)
      [] CropBranch(c) = "class" -> crop_class(size)
      [] OTHER -> crop_standard(size)

\* crop.crop for the standard layout, on an image of the model.
crop(image) == [image EXCEPT !.cropped = TRUE, !.size = crop_standard(image.size)]

\* The card object the catalog returns: its image_uris.png and the
\* image_uris.png of each of its card_faces; the card object behind the uri of
\* the part named like the back card.
RemoteCard(faces) ==
    [png |-> "card.png",
     card_faces |-> [i \in 1..faces |-> "face" \o ToString(i) \o ".png"]]
MeldPart == [png |-> "part.png", card_faces |-> <<>>]

\* get_scryfall_image, the working card object: for a MELD back the card of
\* the part whose name is the back card's, when there is one.
WorkingCard(c) ==
    IF c.layout = "MELD" /\ c.back /\ c.part THEN MeldPart ELSE RemoteCard(c.faces)

\* The png of a face of the working card, or its own.
SelectedPng(c, faced) ==
    IF faced
    THEN WorkingCard(c).card_faces[IF c.back THEN Len(WorkingCard(c).card_faces) ELSE 1]
    ELSE WorkingCard(c).png

\* fetch.get_scryfall_image: the uri the image is downloaded from.
ImageUri(c) == SelectedPng(c, c.layout \in {"TRANSFORM", "MODAL"})

\* load._Fetcher._fetch_image: the uri the image is downloaded from.
LoadImageUri(c) == SelectedPng(c, c.layout = "TRANSFORM")

\* A resize that looks up the size of the uncropped image.
ResizeUncropped(image, size_slug, cropped) ==
    [image EXCEPT !.size = get_size(size_slug, FALSE)]

\* interface.resize_image
resize_image(image, size_slug, cropped) ==
    [image EXCEPT !.size = get_size(size_slug, cropped)]

\* The directories: the package's cardback directory is there from the
\* start; the images root and the imageables' directory under it may not be.
PackageDirs == {CARD_BACK_DIRECTORY_PATH}
AllDirs == {CARD_BACK_DIRECTORY_PATH, IMAGES_PATH, ImageableDirPath}

\* os.makedirs(dir_path): the directory and those above it exist after it.
MakeDirs(dir) ==
    dirs \cup {dir} \cup (IF dir = ImageableDirPath THEN {IMAGES_PATH} ELSE {})

\* Stages that all create the directory before they write.
EnsuresDirAlways(st) == TRUE

\* The stage has `if not os.path.exists(dir_path): os.makedirs(dir_path)` in
\* front of its save: all but the Fetcher of pipeline.py.
EnsuresDir(st) == ~(impl = "pipeline" /\ st = "Fetcher")

\* A disk on which no file is found.
ExistsNever(path) == FALSE

\* os.path.exists(image_request.path)
Exists(path) == path \in DOMAIN disk

\* A dictionary with no entry.
EmptyMap == [x \in {} |-> 0]

\* ImageLoader.load_image_from_disk: the image, or ImageFetchException.
load_image_from_disk(path) ==
    IF path \in DOMAIN disk THEN Val(disk[path]) ELSE Err("ImageFetchException")

\* image.save(path): the disk with the file written.
SaveImage(path, img) == (path :> img) @@ disk

-----------------------------------------------------------------------------
(* TaskAwaiter and EventWithValue                                          *)

\* The source classes that own a TaskAwaiter.
Stages == {"Fetcher", "Cropper", "ReSizer", "ImageableProcessor"}
Transformers == {"Cropper", "ReSizer"}

\* Dictionary access by key: __hash__ and __eq__ of the key decide.
MapHas(m, key) == \E k \in DOMAIN m : ReqEq(k, key)
MapGet(m, key) == m[CHOOSE k \in DOMAIN m : ReqEq(k, key)]
MapPut(m, key, v) ==
    IF MapHas(m, key)
    THEN [m EXCEPT ![CHOOSE k \in DOMAIN m : ReqEq(k, key)] = v]
    ELSE (key :> v) @@ m
MapDel(m, key) == [k \in {x \in DOMAIN m : ~ReqEq(x, key)} |-> m[k]]

\* EventWithValue.__init__: the event is clear and the value is None.  The other
\* fields record what happened to the slot: who owns it, whether a value was
\* stored, whether it was removed from the map, whether its owner has left
\* get_image and with what, what its waiters left with, and the failure of the
\* owner's inner source.
NewSlot(st, key, t) ==
    [st |-> st, key |-> key, value |-> NoneRes, isset |-> FALSE,
     owner |-> t, stored |-> FALSE, removed |-> FALSE, ownerDone |-> FALSE,
     ownres |-> Pending, got |-> {}, innerErr |-> ""]

\* A lock anybody can take at any time.
CanAcquireAlways(holder) == TRUE

\* with self._lock: the lock is taken only when nobody holds it.
CanAcquire(holder) == holder = 0

\* A set_value that signals before it removes the key.
SetValueSignalsFirst == <<"store", "set", "del">>

\* A set_value that signals before it stores the value.
SetValueStoresLast == <<"del", "set", "store">>

\* EventWithValue.set_value: the order of its three statements.
SetValueSteps == <<"store", "del", "set">>

\* The exit of "with event:" on an exception stores the error in the slot,
\* removes the slot from the map and wakes the waiters, like set_value.
WithEventExit == "publish"

\* event.value of a slot, read by a waiter of pipeline.py after wait(): the
\* value, or the stored error raised.
EventValue(v) == v

\* A transformer of load.py that lets the inner failure through.
LoadOnFailurePropagates(st, point) == "leak"

\* load.py, a failure in the owner: the transformers catch the failure of the
\* inner source, store it with set_value and re-raise; nothing else is caught.
LoadOnFailure(st, point) ==
    IF st \in Transformers /\ point = "inner" THEN "publish" ELSE "leak"

\* pipeline.py, a failure in the owner: Fetcher._fetch_image and
\* ImageTransformer.get_image work inside "with event:";
\* ImageableProcessor.get_imageable_image does not.
PipelineOnFailure(st, point) ==
    IF st = "ImageableProcessor" THEN "leak" ELSE WithEventExit

OnFailure(st, point) ==
    IF impl = "load" THEN LoadOnFailure(st, point) ELSE PipelineOnFailure(st, point)

\* What a waiter returns or raises once the event is set.  load.py: a
\* transformer raises the value when it is an exception, the others return it.
WaiterResult(st, v) ==
    IF impl = "load"
    THEN (IF st \in Transformers /\ v.k = "err" THEN Err(v.err) ELSE v)
    ELSE EventValue(v)

-----------------------------------------------------------------------------
(* The sources                                                             *)

\* A ReSizer that hands its own request upstream.
SpawnKeepsTier(st, req) ==
    IF st = "Cropper" THEN spawn(req, "crop" :> FALSE).new ELSE req

\* Transformers whose upstream request does not save.
SpawnWithoutSave(st, req) ==
    IF st = "Cropper" THEN spawn(req, ("crop" :> FALSE) @@ ("save" :> FALSE)).new
    ELSE spawn(req, ("size_slug" :> "ORIGINAL") @@ ("save" :> FALSE)).new

\* Cropper._spawn_image_request, ReSizer._spawn_image_request
SpawnImageRequest(st, req) ==
    IF st = "Cropper" THEN spawn(req, "crop" :> FALSE).new
    ELSE spawn(req, "size_slug" :> "ORIGINAL").new

\* A Cropper whose image has the size the table gives for the request.
ProcessCropScaled(st, image, req) ==
    [image EXCEPT !.cropped = IF st = "Cropper" THEN TRUE ELSE @,
                  !.size = get_size(req["_size_slug"], req["_crop"])]

\* Cropper._process_image, ReSizer._process_image
ProcessImage(st, image, req) ==
    IF st = "Cropper" THEN crop(image)
    ELSE resize_image(image, req["_size_slug"], req["_crop"])

\* A builder that crops what the resizer has resized.
PipelineResizeInside(req) ==
    IF req["_pictured"].kind = "Imageable" THEN <<"ImageableProcessor">>
    ELSE (IF req["_cache_only"] THEN <<"CacheOnly">> ELSE <<>>)
         \o (IF req["_crop"] THEN <<"Cropper">> ELSE <<>>)
         \o (IF req["_size_slug"] # "ORIGINAL" THEN <<"ReSizer">> ELSE <<>>)
         \o <<"Fetcher">>

\* pipeline.get_pipeline: the sources from the outermost to the root.
get_pipeline(req) ==
    IF req["_pictured"].kind = "Imageable" THEN <<"ImageableProcessor">>
    ELSE (IF req["_cache_only"] THEN <<"CacheOnly">> ELSE <<>>)
         \o (IF req["_size_slug"] # "ORIGINAL" THEN <<"ReSizer">> ELSE <<>>)
         \o (IF req["_crop"] THEN <<"Cropper">> ELSE <<>>)
         \o <<"Fetcher">>

\* load.Loader.get_image: the sources from the outermost to the root.
LoadPipeline(req) ==
    IF req["_pictured"].kind = "Imageable" THEN <<"ImageableProcessor">>
    ELSE (IF req["_size_slug"] # "ORIGINAL" THEN <<"ReSizer">> ELSE <<>>)
         \o (IF req["_crop"] THEN <<"Cropper">> ELSE <<>>)
         \o <<"Fetcher">>

\* The task the loader submits for a request: the built pipeline's get_image.
SubmittedPipeline(req) ==
    IF impl = "load" THEN LoadPipeline(req) ELSE get_pipeline(req)

\* A frame: source.get_image(req, loader) about to start.  chain: the sources
\* inside this one.
NewFrame(chain, req) ==
    [st |-> Head(chain), chain |-> Tail(chain), req |-> req, pc |-> "start",
     slot |-> 0, owner |-> FALSE, img |-> NoImg, pub |-> NoneRes,
     fin |-> NoneRes, svi |-> 0, inres |-> NoneRes, sub |-> 0]

\* A pipeline that looks at the disk whatever the request says.
DiskGateAlways(req) == TRUE

\* A pipeline that never looks at the disk.
DiskGateNever(req) == FALSE

\* The disk is looked at before anything else: load.py always does,
\* pipeline.py when the request allows it.
DiskGate(req) == impl = "load" \/ req["_allow_disk_cached"]

\* Stages that write no file.
SavesNever(st, req) == FALSE

\* The stage writes the image it produced: load.py's _Fetcher always does, the
\* others when the request says save.
Saves(st, req) == (impl = "load" /\ st = "Fetcher") \/ req["_save"]

\* What the owner publishes and returns: ImageableProcessor publishes None for a
\* cache_only request.
Published(st, req, img) ==
    IF st = "ImageableProcessor" /\ req["_cache_only"] THEN NoneRes ELSE Val(img)

-----------------------------------------------------------------------------
(* SpecCard: the image of a card is selected and cropped.                   *)

\* A card object lists at most MaxFaces card_faces.
MaxFaces == 3

\* The layouts crop.py and fetch.py name, and one they do not.
Layouts ==
    {"STANDARD", "SPLIT", "AFTERMATH", "FLIP", "SAGA", "TRANSFORM", "MODAL",
     "MELD", "CLASS", "ADVENTURE"}

\* What crop and get_scryfall_image read: whether the request is there and
\* pictures a printing; the cardboard's layout, the tags BATTLE, SAGA and ROOM
\* of the front card's type line, the number of front_cards; the request's
\* back; the card_faces of the catalog's answer and whether all_parts names
\* the back card; the size of the image handed to crop.
CardSpace ==
    [subject : {"Printing", "Imageable", "None"},
     layout : Layouts,
     types : SUBSET {"BATTLE", "SAGA", "ROOM"},
     fronts : 1..2,
     back : BOOLEAN,
     faces : 2..MaxFaces,
     part : BOOLEAN,
     size : {get_size("ORIGINAL", FALSE), get_size("SMALL", FALSE)}]

NoCard ==
    [subject |-> "None", layout |-> "STANDARD", types |-> {}, fronts |-> 1,
     back |-> FALSE, faces |-> 2, part |-> FALSE, size |-> <<0, 0>>]
NoOut ==
    [op |-> "off", uri |-> "", load_uri |-> "", branch |-> "", size |-> <<0, 0>>]

\* No card is looked at.
CardOff == cin = NoCard /\ cout = NoOut

-----------------------------------------------------------------------------
(* SpecReq: requests are constructed, compared, spawned and sized.          *)

\* The second request differs from the first in at most MaxDiff attributes.
MaxDiff == 1
\* A spawn call passes at most MaxKw keywords.
MaxKw == 1

\* In how many of the attributes __init__ sets a and b differ.
DiffCount(a, b) == Cardinality({k \in Attrs : a[k] # b[k]})

NoSize == [slug |-> "ORIGINAL", crop |-> FALSE, size |-> <<0, 0>>]
NoPipeline == [pipeline |-> <<>>, load |-> <<>>]

\* No loader runs while requests are examined.
ConcOff ==
    /\ impl = "pipeline" /\ lruOn = FALSE /\ lru = <<>> /\ disk = EmptyMap
    /\ tasks = [st \in Stages |-> EmptyMap] /\ lock = [st \in Stages |-> 0]
    /\ slots = <<>> /\ stack = <<>> /\ outcome = <<>> /\ asked = <<>>
    /\ handle = <<>>
    /\ hitFailed = <<>> /\ staleGet = FALSE /\ deadGet = FALSE /\ faults = 0
    /\ seq = FALSE /\ seen = <<>> /\ trace = <<>>
    /\ dirs = {} /\ pool = 0

InitReq ==
    /\ \E a \in ArgSpace : ra = NewImageRequest(a)
    /\ ra0 = ra
    /\ rb = ra
    /\ kw = NoKw
    /\ sz = NoSize
    /\ built = NoPipeline
    /\ rop = "init"
    /\ CardOff
    /\ ConcOff

\* A second request is constructed.
Construct ==
    /\ rop = "init"
    /\ \E r \in ReqSpace :
         /\ DiffCount(ra, r) <= MaxDiff
         /\ rb' = r
    /\ rop' = "construct"
    /\ UNCHANGED <<ra, ra0, kw, sz, built, cin, cout, concVars>>

\* ra.spawn(**kwargs), any number of times.  A spawn that follows a spawn which
\* left the receiver as constructed returns what it returns as the first, so
\* it is taken again only where the receiver has changed.
Spawn ==
    /\ rop = "init" \/ (rop = "spawn" /\ ra # ra0)
    /\ \E kwargs \in KwSpace(MaxKw) :
         /\ ra' = spawn(ra, kwargs).self
         /\ rb' = spawn(ra, kwargs).new
         /\ kw' = kwargs
    /\ rop' = "spawn"
    /\ UNCHANGED <<ra0, sz, built, cin, cout, concVars>>

\* ra.size_slug.get_size(ra.crop)
GetSize ==
    /\ rop = "init"
    /\ sz' = [slug |-> ra["_size_slug"], crop |-> ra["_crop"],
              size |-> get_size(ra["_size_slug"], ra["_crop"])]
    /\ rop' = "get_size"
    /\ UNCHANGED <<ra, ra0, rb, kw, built, cin, cout, concVars>>

\* get_pipeline(ra), and the pipeline load.py's Loader.get_image builds for ra
BuildPipeline ==
    /\ rop = "init"
    /\ built' = [pipeline |-> get_pipeline(ra), load |-> LoadPipeline(ra)]
    /\ rop' = "get_pipeline"
    /\ UNCHANGED <<ra, ra0, rb, kw, sz, cin, cout, concVars>>

NextReq == Construct \/ Spawn \/ GetSize \/ BuildPipeline

SpecReq == InitReq /\ [][NextReq]_vars

-----------------------------------------------------------------------------
(* Spec: concurrent loader tasks                                           *)

\* The calls of Loader.get_image; each may become a task of a worker pool.
NumCalls == 3
\* At most MaxFaults operations fail: a fetch, a render, an image operation, a
\* disk write.
MaxFaults == 1
\* image_cache_size, the capacity of ImageLoader's lru_cache.
ImageCacheSize == 64

Calls == 1..NumCalls

PlainArgs ==
    [pictured |-> Printing1, pictured_type |-> "Printing",
     picture_name |-> [tag |-> "None", s |-> "", n |-> 0], back |-> FALSE,
     crop |-> FALSE, size_slug |-> "ORIGINAL", save |-> TRUE,
     cache_only |-> FALSE, allow_disk_cached |-> TRUE]

\* The requests the callers make.
ReqPlain == NewImageRequest(PlainArgs)
ReqCrop == NewImageRequest([PlainArgs EXCEPT !.crop = TRUE])
ReqCacheOnly == NewImageRequest([PlainArgs EXCEPT !.cache_only = TRUE])
ReqImageable == NewImageRequest([PlainArgs EXCEPT !.pictured = Imageable1])
ReqImageableCacheOnly ==
    NewImageRequest([PlainArgs EXCEPT !.pictured = Imageable1, !.cache_only = TRUE])

ReqDeck == NewImageRequest([PlainArgs EXCEPT !.pictured = Imageable2])

ReqCropSmall ==
    NewImageRequest([PlainArgs EXCEPT !.crop = TRUE, !.size_slug = "SMALL"])
ReqCropMedium ==
    NewImageRequest([PlainArgs EXCEPT !.crop = TRUE, !.size_slug = "MEDIUM"])
ReqNoSave == NewImageRequest([PlainArgs EXCEPT !.save = FALSE])
ReqNoDisk == NewImageRequest([PlainArgs EXCEPT !.allow_disk_cached = FALSE])

TaskRequests ==
    {ReqPlain, ReqCrop, ReqCacheOnly, ReqImageable, ReqImageableCacheOnly,
     ReqCropSmall, ReqCropMedium, ReqNoSave, ReqNoDisk}

\* SpecNest: the requests for the imageable that asks the loader again and
\* for the one it asks for.
NestRequests == {ReqDeck, ReqImageable}

\* The requests Imageable.get_image(size, loader, back, crop) makes of the
\* loader it is handed, each waited for before it returns.
RenderNeeds(pictured) ==
    IF pictured = Imageable2 THEN <<ReqImageable>> ELSE <<>>

\* SpecNest: the imageable pool has at most MaxPool workers.
MaxPool == 2

\* The runs of Spec that ask for whole pipelines, or for requests of one
\* path, make PairCalls calls.
PairCalls == 2

\* SpecSeq: the calls are made one after another, at most MaxSeqCalls of them.
MaxSeqCalls == 2

\* The requests of SpecSeq.  For printing 12345: every crop, two tiers, every
\* save, cache_only and allow_disk_cached; with a picture name, and for the back
\* face it does not have, both with and without the disk cache.  For the
\* imageable: every save, cache_only and allow_disk_cached.
SeqRequests ==
    {NewImageRequest([PlainArgs EXCEPT !.crop = c, !.size_slug = z, !.save = s,
                                       !.cache_only = o, !.allow_disk_cached = d]) :
        <<c, z, s, o, d>> \in
            BOOLEAN \X {"ORIGINAL", "SMALL"} \X BOOLEAN \X BOOLEAN \X BOOLEAN}
    \cup {NewImageRequest([PlainArgs EXCEPT
                !.picture_name = [tag |-> "str", s |-> "n", n |-> 0],
                !.allow_disk_cached = d]) : d \in BOOLEAN}
    \cup {NewImageRequest([PlainArgs EXCEPT !.back = TRUE,
                                            !.allow_disk_cached = d]) : d \in BOOLEAN}
    \cup {NewImageRequest([PlainArgs EXCEPT !.pictured = Imageable1, !.save = s,
                                            !.cache_only = o, !.allow_disk_cached = d]) :
            <<s, o, d>> \in BOOLEAN \X BOOLEAN \X BOOLEAN}

\* The requests one run of Spec mixes, and the calls it makes: requests that
\* share a stage or a file, or one request repeated; two tiers of one cropped
\* printing; requests of one path that differ in save, cache_only or
\* allow_disk_cached.
Mixes ==
    {[reqs |-> {ReqPlain, ReqCrop}, calls |-> NumCalls],
     [reqs |-> {ReqCacheOnly}, calls |-> NumCalls],
     [reqs |-> {ReqImageable, ReqImageableCacheOnly}, calls |-> NumCalls],
     [reqs |-> NestRequests, calls |-> NumCalls],
     [reqs |-> {ReqCropSmall, ReqCropMedium}, calls |-> PairCalls],
     [reqs |-> {ReqPlain, ReqNoSave, ReqNoDisk, ReqCacheOnly}, calls |-> PairCalls]}

\* Call t may ask for req after the calls before it: in Spec the requests of
\* the run are of one mix; in SpecSeq they are for printings only or for
\* imageables only, which share no slot map and no file.
GoTogether(t, req) ==
    IF seq THEN asked[1]["_pictured"].kind = req["_pictured"].kind
    ELSE \E mix \in Mixes :
            /\ t <= mix.calls /\ req \in mix.reqs
            /\ \A u \in 1..(t - 1) : asked[u] \in mix.reqs

\* The requests the callers of a run may make, and how many calls they make.
Askable ==
    IF pool > 0 THEN NestRequests ELSE IF seq THEN SeqRequests ELSE TaskRequests
CallLimit == IF seq THEN MaxSeqCalls ELSE NumCalls

\* executor.submit(source.get_image, request, loader): the task waits for a
\* worker when the pool is bounded.
Submitted(req) ==
    [NewFrame(SubmittedPipeline(req), req) EXCEPT
        !.pc = IF pool > 0 THEN "queued" ELSE "start"]

\* The tasks a worker of the pool is running.
Workers == {t \in Calls : stack[t] # <<>> /\ stack[t][1].pc # "queued"}

\* The request of a call not made yet.
NoReq == NewImageRequest([PlainArgs EXCEPT !.pictured = NoPictured])

\* The trace of task t with one more event.
Logged(t, st, ev, path) ==
    [trace EXCEPT ![t] = Append(@, [st |-> st, ev |-> ev, path |-> path])]

Top(t) == stack[t][Len(stack[t])]
Running(t) == stack[t] # <<>>

Done(t) == outcome[t].k \in {"val", "none", "err"}

\* The stack of t with its top frame replaced.
WithTop(t, f) == [stack EXCEPT ![t][Len(stack[t])] = f]

\* The top frame of t returns or raises res: the frame is popped and its caller,
\* or the promise of the task, gets res.  sl: the slots as the step leaves them.
Finish(t, res, sl) ==
    LET s == stack[t]
        n == Len(s)
        f == s[n]
    IN  /\ stack' = [stack EXCEPT ![t] =
                        IF n = 1 THEN <<>>
                        ELSE [SubSeq(s, 1, n - 1) EXCEPT
                                ![n - 1].inres = res, ![n - 1].pc = "inner_ret"]]
        /\ outcome' = IF n = 1 THEN [outcome EXCEPT ![t] = res] ELSE outcome
        /\ slots' = IF f.slot = 0 THEN sl
                    ELSE IF f.owner
                    THEN [sl EXCEPT ![f.slot].ownerDone = TRUE, ![f.slot].ownres = res]
                    ELSE [sl EXCEPT ![f.slot].got = @ \cup {res}]

\* The owner's work failed with exception e at point: either the failure is
\* stored in the slot like a value and raised after, or it is raised at once
\* and the slot is left as it is.
Fail(t, e, point, sl) ==
    LET f == Top(t)
    IN  IF OnFailure(f.st, point) = "publish"
        THEN /\ stack' = WithTop(t, [f EXCEPT !.pc = "sv", !.svi = 1,
                                              !.pub = Err(e), !.fin = Err(e)])
             /\ slots' = sl
             /\ UNCHANGED outcome
        ELSE Finish(t, Err(e), sl)

\* A get_condition that returns with the lock still held.
ReleaseNever(st) == lock

\* The end of "with self._lock:" in get_condition: the lock is released.
Release(st) == [lock EXCEPT ![st] = 0]

\* The lru_cache of ImageLoader._get_image.
LruHas(req) == \E i \in 1..Len(lru) : ReqEq(lru[i].req, req)
LruIndex(req) == CHOOSE i \in 1..Len(lru) : ReqEq(lru[i].req, req)
LruTouch(i) ==
    SubSeq(lru, 1, i - 1) \o SubSeq(lru, i + 1, Len(lru)) \o <<lru[i]>>
LruPut(req, t) ==
    (IF Len(lru) >= ImageCacheSize THEN Tail(lru) ELSE lru)
        \o <<[req |-> req, task |-> t]>>

Init ==
    /\ impl \in {"pipeline", "load"}
    /\ lruOn \in BOOLEAN
    /\ impl = "load" => ~lruOn
    /\ lru = <<>>
    /\ disk = EmptyMap
    /\ tasks = [st \in Stages |-> EmptyMap]
    /\ lock = [st \in Stages |-> 0]
    /\ slots = <<>>
    /\ stack = [t \in Calls |-> <<>>]
    /\ outcome = [t \in Calls |-> Idle]
    /\ asked = [t \in Calls |-> NoReq]
    /\ handle = [t \in Calls |-> 0]
    /\ hitFailed = [t \in Calls |-> FALSE]
    /\ staleGet = FALSE
    /\ deadGet = FALSE
    /\ faults = 0
    /\ seq = FALSE
    /\ seen = [t \in Calls |-> {}]
    /\ trace = [t \in Calls |-> <<>>]
    /\ dirs = AllDirs
    /\ pool = 0
    /\ ra = ReqPlain /\ ra0 = ReqPlain /\ rb = ReqPlain
    /\ kw = NoKw /\ sz = NoSize /\ built = NoPipeline /\ rop = "off"
    /\ CardOff

\* ImageLoader.get_image(image_request = req): the lru_cache hands out the
\* promise it holds for an equal request; otherwise _get_image submits the
\* pipeline's get_image to a worker pool and its promise is cached.
GetImage(t, req) ==
    /\ outcome[t].k = "idle"
    /\ t <= CallLimit
    /\ req \in Askable
    \* SpecSeq: a call is made when the call before it has finished
    /\ (seq /\ t > 1) => ~Running(t - 1)
    \* the calls are numbered in the order they are made, and one run asks for
    \* requests that go together
    /\ t > 1 => /\ outcome[t - 1].k # "idle"
                /\ GoTogether(t, req)
    /\ asked' = [asked EXCEPT ![t] = req]
    /\ IF lruOn /\ LruHas(req)
       THEN /\ handle' = [handle EXCEPT ![t] = lru[LruIndex(req)].task]
            /\ hitFailed' = [hitFailed EXCEPT
                                ![t] = outcome[lru[LruIndex(req)].task].k = "err"]
            /\ outcome' = [outcome EXCEPT ![t] = Alias]
            /\ lru' = LruTouch(LruIndex(req))
            /\ UNCHANGED stack
       ELSE /\ handle' = [handle EXCEPT ![t] = t]
            /\ outcome' = [outcome EXCEPT ![t] = Pending]
            /\ stack' = [stack EXCEPT ![t] = <<Submitted(req)>>]
            /\ lru' = IF lruOn THEN LruPut(req, t) ELSE lru
            /\ UNCHANGED hitFailed
    /\ seen' = [seen EXCEPT ![t] = DOMAIN disk]
    /\ UNCHANGED <<trace, impl, seq, pool, dirs, lruOn, disk, tasks, lock, slots, staleGet, deadGet, faults, reqVars>>

\* The start of get_image: the disk is looked at.
\* Fetcher: a file that loads is returned; when none does, a request with a
\* picture name or without an image fails.  A transformer: a file that loads is
\* returned.  ImageableProcessor: a cache_only request returns None when the file
\* exists (pipeline.py: also when the disk may not be used); another request
\* returns a file that loads.  Whoever has not returned goes for the slot.
DiskCheck(t) ==
    /\ Running(t)
    /\ Top(t).pc = "start"
    /\ Top(t).st \in Stages
    /\ LET f == Top(t)
           req == f.req
           p == Path(req)
           go == /\ stack' = WithTop(t, [f EXCEPT !.pc = "gc"])
                 /\ UNCHANGED <<outcome, slots>>
       IN  IF f.st = "ImageableProcessor"
           THEN IF DiskGate(req)
                THEN IF req["_cache_only"]
                     THEN IF p.exc # "" THEN Finish(t, Err(p.exc), slots)
                          ELSE IF Exists(p.v) THEN Finish(t, NoneRes, slots)
                          ELSE go
                     ELSE IF p.exc # "" THEN Finish(t, Err(p.exc), slots)
                          ELSE IF load_image_from_disk(p.v).k = "val"
                          THEN Finish(t, load_image_from_disk(p.v), slots)
                          ELSE go
                ELSE IF req["_cache_only"] THEN Finish(t, NoneRes, slots) ELSE go
           ELSE IF DiskGate(req)
                THEN IF p.exc # "" THEN Finish(t, Err(p.exc), slots)
                     ELSE IF load_image_from_disk(p.v).k = "val"
                     THEN Finish(t, load_image_from_disk(p.v), slots)
                     ELSE IF f.st = "Fetcher" /\ req["_pictured_name"] # None
                     THEN Finish(t, Err("ImageFetchException"), slots)
                     ELSE IF f.st = "Fetcher" /\ ~has_image(req)
                     THEN Finish(t, Err("ImageFetchException"), slots)
                     ELSE go
                ELSE go
    /\ trace' = IF DiskGate(Top(t).req) /\ Path(Top(t).req).exc = ""
                THEN Logged(t, Top(t).st, "read", Path(Top(t).req).v)
                ELSE trace
    /\ UNCHANGED <<seen, impl, seq, pool, dirs, lruOn, lru, disk, tasks, lock, asked, handle, hitFailed,
                   staleGet, deadGet, faults, reqVars>>

\* TaskAwaiter.get_condition, under the lock: an existing slot is returned with
\* True; when there is none the caller goes on, still holding the lock, to
\* insert one.
GetCondition(t) ==
    /\ Running(t)
    /\ Top(t).pc = "gc"
    /\ LET f == Top(t)
       IN  /\ CanAcquire(lock[f.st])
           /\ IF MapHas(tasks[f.st], f.req)
              THEN /\ stack' = WithTop(t, [f EXCEPT !.pc = "wait",
                                    !.slot = MapGet(tasks[f.st], f.req)])
                   /\ staleGet' = (staleGet \/ slots[MapGet(tasks[f.st], f.req)].isset)
                   /\ deadGet' = (deadGet \/
                        (/\ slots[MapGet(tasks[f.st], f.req)].ownerDone
                         /\ ~slots[MapGet(tasks[f.st], f.req)].isset))
                   /\ UNCHANGED lock
              ELSE /\ stack' = WithTop(t, [f EXCEPT !.pc = "gc_new"])
                   /\ lock' = [lock EXCEPT ![f.st] = t]
                   /\ UNCHANGED <<staleGet, deadGet>>
    /\ UNCHANGED <<seen, trace, impl, seq, pool, dirs, lruOn, lru, disk, tasks, slots, outcome, asked, handle,
                   hitFailed, faults, reqVars>>

\* get_condition, the KeyError branch: a new EventWithValue is put in the map
\* and returned with False; the lock is released.
InsertSlot(t) ==
    /\ Running(t)
    /\ Top(t).pc = "gc_new"
    /\ LET f == Top(t)
           id == Len(slots) + 1
       IN  /\ slots' = Append(slots, NewSlot(f.st, f.req, t))
           /\ tasks' = [tasks EXCEPT ![f.st] = MapPut(@, f.req, id)]
           /\ lock' = Release(f.st)
           /\ stack' = WithTop(t, [f EXCEPT !.pc = "work", !.slot = id, !.owner = TRUE])
    /\ UNCHANGED <<seen, trace, impl, seq, pool, dirs, lruOn, lru, disk, outcome, asked, handle, hitFailed,
                   staleGet, deadGet, faults, reqVars>>

\* in_progress: event.wait() returns once the event is set, and the waiter
\* returns event.value.
Wait(t) ==
    /\ Running(t)
    /\ Top(t).pc = "wait"
    /\ slots[Top(t).slot].isset
    /\ Finish(t, WaiterResult(Top(t).st, slots[Top(t).slot].value), slots)
    /\ UNCHANGED <<seen, trace, impl, seq, pool, dirs, lruOn, lru, disk, tasks, lock, asked, handle, hitFailed,
                   staleGet, deadGet, faults, reqVars>>

\* Fetcher._fetch_image, the remote fetch: get_scryfall_image returns the image
\* or raises ImageFetchException.
Fetch(t) ==
    /\ Running(t)
    /\ Top(t).pc = "work"
    /\ Top(t).st = "Fetcher"
    /\ LET f == Top(t)
       IN  \/ /\ stack' = WithTop(t, [f EXCEPT !.pc = "save",
                                               !.img = FetchedImage(f.req)])
              /\ UNCHANGED <<slots, outcome, faults>>
           \/ /\ faults < MaxFaults
              /\ faults' = faults + 1
              /\ \E kind \in FetchFailures : Fail(t, FetchRaises(kind), "work", slots)
    /\ trace' = Logged(t, "Fetcher", "net", "")
    /\ UNCHANGED <<seen, impl, seq, pool, dirs, lruOn, lru, disk, tasks, lock, asked, handle, hitFailed,
                   staleGet, deadGet, reqVars>>

\* ImageableProcessor.get_imageable_image, the render: the imageable's
\* get_image returns an image, resized to the size asked for, or raises.
Render(t) ==
    /\ Running(t)
    /\ Top(t).pc = "work"
    /\ Top(t).st = "ImageableProcessor"
    /\ RenderNeeds(Top(t).req["_pictured"]) = <<>>
    /\ LET f == Top(t)
       IN  \/ /\ stack' = WithTop(t, [f EXCEPT !.pc = "save",
                            !.img = RenderedImage(f.req,
                                get_size(f.req["_size_slug"], f.req["_crop"]))])
              /\ UNCHANGED <<slots, outcome, faults>>
           \/ /\ faults < MaxFaults
              /\ faults' = faults + 1
              /\ Fail(t, "Exception", "work", slots)
    /\ trace' = Logged(t, "ImageableProcessor", "render", "")
    /\ UNCHANGED <<seen, impl, seq, pool, dirs, lruOn, lru, disk, tasks, lock, asked, handle, hitFailed,
                   staleGet, deadGet, reqVars>>

\* ImageTransformer.get_image, the owner: the inner source is called with the
\* spawned request.
CallInner(t) ==
    /\ Running(t)
    /\ Top(t).pc = "work"
    /\ Top(t).st \in Transformers
    /\ LET f == Top(t)
       IN  stack' = [stack EXCEPT ![t] =
                Append([stack[t] EXCEPT ![Len(stack[t])].pc = "inner"],
                       NewFrame(f.chain, SpawnImageRequest(f.st, f.req)))]
    /\ UNCHANGED <<seen, trace, impl, seq, pool, dirs, lruOn, lru, disk, tasks, lock, slots, outcome, asked, handle,
                   hitFailed, staleGet, deadGet, faults, reqVars>>

\* ImageTransformer.get_image, the inner source has returned or raised: a
\* failure is handled; an image is processed, which may fail too.
InnerReturned(t) ==
    /\ Running(t)
    /\ Top(t).pc = "inner_ret"
    /\ Top(t).st \in Transformers
    /\ LET f == Top(t)
       IN  IF f.inres.k = "err"
           THEN /\ Fail(t, f.inres.err, "inner",
                        [slots EXCEPT ![f.slot].innerErr = f.inres.err])
                /\ UNCHANGED faults
           ELSE IF f.inres.k = "none"
           THEN /\ Fail(t, "AttributeError", "process", slots)
                /\ UNCHANGED faults
           ELSE \/ /\ stack' = WithTop(t, [f EXCEPT !.pc = "save",
                                 !.img = ProcessImage(f.st, f.inres.img, f.req)])
                   /\ UNCHANGED <<slots, outcome, faults>>
                \/ /\ faults < MaxFaults
                   /\ faults' = faults + 1
                   /\ Fail(t, "Exception", "process", slots)
    /\ UNCHANGED <<seen, trace, impl, seq, pool, dirs, lruOn, lru, disk, tasks, lock, asked, handle, hitFailed,
                   staleGet, deadGet, reqVars>>

\* CacheOnly.get_image: the inner source is called with the request itself.
CacheOnlyCall(t) ==
    /\ Running(t)
    /\ Top(t).pc = "start"
    /\ Top(t).st = "CacheOnly"
    /\ LET f == Top(t)
       IN  stack' = [stack EXCEPT ![t] =
                Append([stack[t] EXCEPT ![Len(stack[t])].pc = "inner"],
                       NewFrame(f.chain, f.req))]
    /\ UNCHANGED <<seen, trace, impl, seq, pool, dirs, lruOn, lru, disk, tasks, lock, slots, outcome,
                   asked, handle, hitFailed, staleGet, deadGet, faults, reqVars>>

\* CacheOnly.get_image, the inner source has returned or raised: None is
\* returned, a failure goes on to the caller.
CacheOnlyReturn(t) ==
    /\ Running(t)
    /\ Top(t).pc = "inner_ret"
    /\ Top(t).st = "CacheOnly"
    /\ IF Top(t).inres.k = "err"
       THEN Finish(t, Top(t).inres, slots)
       ELSE Finish(t, NoneRes, slots)
    /\ UNCHANGED <<seen, trace, impl, seq, pool, dirs, lruOn, lru, disk, tasks, lock, asked, handle,
                   hitFailed, staleGet, deadGet, faults, reqVars>>

\* The owner writes the image to the request's path when it saves, after
\* creating the directory where the stage does that; the write fails when the
\* directory is not there, and may fail otherwise.  Then it goes on to
\* set_value.
Save(t) ==
    /\ Running(t)
    /\ Top(t).pc = "save"
    /\ LET f == Top(t)
           next == [f EXCEPT !.pc = "sv", !.svi = 1,
                             !.pub = Published(f.st, f.req, f.img),
                             !.fin = Published(f.st, f.req, f.img)]
           dir == DirPath(f.req).v
       IN  IF Saves(f.st, f.req) /\ dir \notin dirs /\ ~EnsuresDir(f.st)
           THEN /\ Fail(t, "FileNotFoundError", "save", slots)
                /\ UNCHANGED <<disk, trace, dirs, faults>>
           ELSE IF Saves(f.st, f.req)
           THEN \/ /\ disk' = SaveImage(Path(f.req).v, f.img)
                   /\ dirs' = MakeDirs(dir)
                   /\ trace' = Logged(t, f.st, "write", Path(f.req).v)
                   /\ stack' = WithTop(t, next)
                   /\ UNCHANGED <<slots, outcome, faults>>
                \/ /\ faults < MaxFaults
                   /\ faults' = faults + 1
                   /\ Fail(t, "OSError", "save", slots)
                   /\ UNCHANGED <<disk, trace, dirs>>
           ELSE /\ stack' = WithTop(t, next)
                /\ UNCHANGED <<disk, slots, outcome, faults, trace, dirs>>
    /\ UNCHANGED <<seen, impl, seq, pool, lruOn, lru, tasks, lock, asked, handle, hitFailed, staleGet, deadGet,
                   reqVars>>

\* EventWithValue.set_value, one statement at a time: the value is stored; the
\* key is deleted from the map under the lock (TaskAwaiter.del_key; KeyError
\* when it is not there); the event is set.  After the last one the owner
\* returns the value, or raises the failure it stored.
SetValueStep(t) ==
    /\ Running(t)
    /\ Top(t).pc = "sv"
    /\ LET f == Top(t)
           step == SetValueSteps[f.svi]
           sl == IF step = "store"
                 THEN [slots EXCEPT ![f.slot].value = f.pub, ![f.slot].stored = TRUE]
                 ELSE IF step = "set" THEN [slots EXCEPT ![f.slot].isset = TRUE]
                 ELSE IF MapHas(tasks[f.st], f.req)
                 THEN [slots EXCEPT ![MapGet(tasks[f.st], f.req)].removed = TRUE]
                 ELSE slots
       IN  /\ step = "del" => CanAcquire(lock[f.st])
           /\ tasks' = IF step = "del"
                       THEN [tasks EXCEPT ![f.st] = MapDel(@, f.req)]
                       ELSE tasks
           /\ IF step = "del" /\ ~MapHas(tasks[f.st], f.req)
              THEN Finish(t, Err("KeyError"), sl)
              ELSE IF f.svi = Len(SetValueSteps)
              THEN Finish(t, f.fin, sl)
              ELSE /\ stack' = WithTop(t, [f EXCEPT !.svi = f.svi + 1])
                   /\ slots' = sl
                   /\ UNCHANGED outcome
    /\ UNCHANGED <<seen, trace, impl, seq, pool, dirs, lruOn, lru, disk, lock, asked, handle, hitFailed, staleGet, deadGet,
                   faults, reqVars>>

\* A worker of the bounded pool that is free takes a task that was submitted.
Start(t) ==
    /\ Running(t)
    /\ Top(t).pc = "queued"
    /\ Cardinality(Workers) < pool
    /\ stack' = WithTop(t, [Top(t) EXCEPT !.pc = "start"])
    /\ UNCHANGED <<slots, outcome, seen, trace, impl, seq, pool, dirs, lruOn, lru, disk, tasks, lock,
                   asked, handle, hitFailed, staleGet, deadGet, faults, reqVars>>

\* The render asks the loader for the image it needs: loader.get_image
\* submits the request to the imageable pool as call u, and the render waits
\* for its promise.
RenderNested(t) ==
    /\ Running(t)
    /\ Top(t).pc = "work"
    /\ Top(t).st = "ImageableProcessor"
    /\ RenderNeeds(Top(t).req["_pictured"]) # <<>>
    /\ \E u \in Calls :
          /\ outcome[u].k = "idle"
          /\ \A v \in 1..(u - 1) : outcome[v].k # "idle"
          /\ LET req == RenderNeeds(Top(t).req["_pictured"])[1]
             IN  /\ asked' = [asked EXCEPT ![u] = req]
                 /\ handle' = [handle EXCEPT ![u] = u]
                 /\ outcome' = [outcome EXCEPT ![u] = Pending]
                 /\ seen' = [seen EXCEPT ![u] = DOMAIN disk]
                 /\ stack' = [stack EXCEPT
                                ![t] = WithTop(t, [Top(t) EXCEPT !.pc = "nested",
                                                                !.sub = u])[t],
                                ![u] = <<Submitted(req)>>]
    /\ UNCHANGED <<slots, trace, impl, seq, pool, dirs, lruOn, lru, disk, tasks, lock, hitFailed,
                   staleGet, deadGet, faults, reqVars>>

\* The promise the render waits for is resolved: the render returns its image,
\* or raises what the nested call raised.
RenderResume(t) ==
    /\ Running(t)
    /\ Top(t).pc = "nested"
    /\ Done(Top(t).sub)
    /\ LET f == Top(t)
       IN  IF outcome[f.sub].k = "val"
           THEN /\ stack' = WithTop(t, [f EXCEPT !.pc = "save",
                            !.img = RenderedImage(f.req,
                                get_size(f.req["_size_slug"], f.req["_crop"]))])
                /\ UNCHANGED <<slots, outcome>>
           ELSE Fail(t, "Exception", "work", slots)
    /\ trace' = Logged(t, "ImageableProcessor", "render", "")
    /\ UNCHANGED <<seen, impl, seq, pool, dirs, lruOn, lru, disk, tasks, lock, asked, handle, hitFailed,
                   staleGet, deadGet, faults, reqVars>>

Next ==
    \E t \in Calls :
        \/ \E req \in TaskRequests : GetImage(t, req)
        \/ DiskCheck(t)
        \/ GetCondition(t)
        \/ InsertSlot(t)
        \/ Wait(t)
        \/ Fetch(t)
        \/ Render(t)
        \/ CallInner(t)
        \/ InnerReturned(t)
        \/ CacheOnlyCall(t)
        \/ CacheOnlyReturn(t)
        \/ Save(t)
        \/ SetValueStep(t)

Spec == Init /\ [][Next]_vars

\* SpecSeq: a cold loader, pipeline.py's or load.py's, without the lru_cache,
\* asked for requests of every kind one after another.
InitSeq ==
    /\ impl \in {"pipeline", "load"}
    /\ lruOn = FALSE
    /\ lru = <<>>
    /\ disk = EmptyMap
    /\ tasks = [st \in Stages |-> EmptyMap]
    /\ lock = [st \in Stages |-> 0]
    /\ slots = <<>>
    /\ stack = [t \in Calls |-> <<>>]
    /\ outcome = [t \in Calls |-> Idle]
    /\ asked = [t \in Calls |-> NoReq]
    /\ handle = [t \in Calls |-> 0]
    /\ hitFailed = [t \in Calls |-> FALSE]
    /\ staleGet = FALSE
    /\ deadGet = FALSE
    /\ faults = 0
    /\ seq = TRUE
    /\ seen = [t \in Calls |-> {}]
    /\ trace = [t \in Calls |-> <<>>]
    /\ dirs \in {PackageDirs, AllDirs}
    /\ pool = 0
    /\ ra = ReqPlain /\ ra0 = ReqPlain /\ rb = ReqPlain
    /\ kw = NoKw /\ sz = NoSize /\ built = NoPipeline /\ rop = "off"
    /\ CardOff

\* No call of SpecSeq waits for another: a slot is signalled by its owner
\* only, and the owner has finished before the next call is made.
NextSeq ==
    \E t \in Calls :
        \/ \E req \in SeqRequests : GetImage(t, req)
        \/ DiskCheck(t)
        \/ GetCondition(t)
        \/ InsertSlot(t)
        \/ Fetch(t)
        \/ Render(t)
        \/ CallInner(t)
        \/ InnerReturned(t)
        \/ CacheOnlyCall(t)
        \/ CacheOnlyReturn(t)
        \/ Save(t)
        \/ SetValueStep(t)

SpecSeq == InitSeq /\ [][NextSeq]_vars

-----------------------------------------------------------------------------
(* SpecCompose: Cropper and ReSizer composed by hand, in either order.      *)

\* ReSizer(Cropper(Fetcher)), the order of get_pipeline, and
\* Cropper(ReSizer(Fetcher)).
Compositions ==
    {<<"ReSizer", "Cropper", "Fetcher">>, <<"Cropper", "ReSizer", "Fetcher">>}

\* The requests with crop true and a tier other than ORIGINAL, every save and
\* allow_disk_cached.
ComposeRequests ==
    {NewImageRequest([PlainArgs EXCEPT !.crop = TRUE, !.size_slug = z, !.save = s,
                                       !.allow_disk_cached = d]) :
        <<z, s, d>> \in (SizeSlug \ {"ORIGINAL"}) \X BOOLEAN \X BOOLEAN}

\* source.get_image(request, loader) on a source composed by hand, when the
\* call before it has returned.
GetImageComposed(t, chain, req) ==
    /\ seq
    /\ outcome[t].k = "idle"
    /\ t <= MaxSeqCalls
    /\ t > 1 => ~Running(t - 1) /\ outcome[t - 1].k # "idle"
    /\ asked' = [asked EXCEPT ![t] = req]
    /\ handle' = [handle EXCEPT ![t] = t]
    /\ outcome' = [outcome EXCEPT ![t] = Pending]
    /\ stack' = [stack EXCEPT ![t] = <<NewFrame(chain, req)>>]
    /\ seen' = [seen EXCEPT ![t] = DOMAIN disk]
    /\ UNCHANGED <<trace, impl, seq, pool, dirs, lruOn, lru, disk, tasks, lock, slots, hitFailed,
                   staleGet, deadGet, faults, reqVars>>

NextCompose ==
    \E t \in Calls :
        \/ \E chain \in Compositions, req \in ComposeRequests :
              GetImageComposed(t, chain, req)
        \/ DiskCheck(t)
        \/ GetCondition(t)
        \/ InsertSlot(t)
        \/ Fetch(t)
        \/ CallInner(t)
        \/ InnerReturned(t)
        \/ Save(t)
        \/ SetValueStep(t)

SpecCompose == InitSeq /\ [][NextCompose]_vars

-----------------------------------------------------------------------------
(* SpecNest: imageables whose render asks the loader again, on a bounded    *)
(* imageable pool.                                                          *)

InitNest ==
    /\ impl \in {"pipeline", "load"}
    /\ lruOn = FALSE
    /\ lru = <<>>
    /\ disk = EmptyMap
    /\ tasks = [st \in Stages |-> EmptyMap]
    /\ lock = [st \in Stages |-> 0]
    /\ slots = <<>>
    /\ stack = [t \in Calls |-> <<>>]
    /\ outcome = [t \in Calls |-> Idle]
    /\ asked = [t \in Calls |-> NoReq]
    /\ handle = [t \in Calls |-> 0]
    /\ hitFailed = [t \in Calls |-> FALSE]
    /\ staleGet = FALSE
    /\ deadGet = FALSE
    /\ faults = 0
    /\ seq = FALSE
    /\ seen = [t \in Calls |-> {}]
    /\ trace = [t \in Calls |-> <<>>]
    /\ dirs = AllDirs
    /\ pool \in 1..MaxPool
    /\ ra = ReqPlain /\ ra0 = ReqPlain /\ rb = ReqPlain
    /\ kw = NoKw /\ sz = NoSize /\ built = NoPipeline /\ rop = "off"
    /\ CardOff

NextNest ==
    \E t \in Calls :
        \/ \E req \in NestRequests : GetImage(t, req)
        \/ Start(t)
        \/ DiskCheck(t)
        \/ GetCondition(t)
        \/ InsertSlot(t)
        \/ Wait(t)
        \/ Render(t)
        \/ RenderNested(t)
        \/ RenderResume(t)
        \/ Save(t)
        \/ SetValueStep(t)

SpecNest == InitNest /\ [][NextNest]_vars

-----------------------------------------------------------------------------
(* SpecCard                                                                *)

\* SpecCard: a card and a request for it are given.
InitCard ==
    /\ cin \in CardSpace
    /\ cout = NoOut
    /\ ra = ReqPlain /\ ra0 = ReqPlain /\ rb = ReqPlain
    /\ kw = NoKw /\ sz = NoSize /\ built = NoPipeline /\ rop = "off"
    /\ ConcOff

\* get_scryfall_image(image_request), and load.py's _Fetcher._fetch_image: the
\* image is downloaded from the uri selected.
SelectImage ==
    /\ cout.op = "off"
    /\ cin.subject = "Printing"
    /\ cout' = [NoOut EXCEPT !.op = "fetch", !.uri = ImageUri(cin),
                             !.load_uri = LoadImageUri(cin)]
    /\ UNCHANGED <<cin, ra, ra0, rb, kw, sz, built, rop, concVars>>

\* crop.crop(image, image_request)
CropImage ==
    /\ cout.op = "off"
    /\ cout' = [NoOut EXCEPT !.op = "crop", !.branch = CropBranch(cin),
                             !.size = CropFor(cin.size, cin)]
    /\ UNCHANGED <<cin, ra, ra0, rb, kw, sz, built, rop, concVars>>

NextCard == SelectImage \/ CropImage

SpecCard == InitCard /\ [][NextCard]_vars

-----------------------------------------------------------------------------
(* Properties                                                              *)

SlotIds == 1..Len(slots)
SameTask(i, j) == slots[i].st = slots[j].st /\ ReqEq(slots[i].key, slots[j].key)
\* An owner between get_condition and set_value: at the stage's work.
AtWork(f) == f.owner /\ f.pc \in {"work", "inner", "inner_ret", "save"}

\* Identical requests that have returned have returned the same thing.
SameResults ==
    \A t, u \in Calls :
        (/\ Done(t) /\ Done(u) /\ ReqEq(asked[t], asked[u])
         /\ outcome[t].k # "err" /\ outcome[u].k # "err")
        => outcome[t] = outcome[u]

\* C1 as claimed: among identical requests (all of them save and allow the
\* disk cache) against a cold cache, with no failure, the work of a stage is
\* executed by one of them only, and all return the same image.
C1_SingleFlight ==
    faults = 0 =>
        /\ \A i, j \in SlotIds : SameTask(i, j) => i = j
        /\ SameResults

\* C1 as amended: among identical requests against a cold cache no two execute
\* the work of a stage at the same time, and all that return an image return
\* the same image.
C1_NoOverlap ==
    /\ \A t, u \in Calls :
         (t # u /\ Running(t) /\ Running(u)) =>
            \A n \in 1..Len(stack[t]), m \in 1..Len(stack[u]) :
                ~(/\ AtWork(stack[t][n]) /\ AtWork(stack[u][m])
                  /\ stack[t][n].st = stack[u][m].st
                  /\ ReqEq(stack[t][n].req, stack[u][m].req))
    /\ SameResults

\* C1, the case: with no failure, two identical requests have both returned an
\* image and the work of their stage was executed twice.
C1_Witness ==
    /\ faults = 0
    /\ \E t, u \in Calls :
         /\ t # u /\ outcome[t].k = "val" /\ outcome[u] = outcome[t]
         /\ ReqEq(asked[t], asked[u])
    /\ \E i, j \in SlotIds : i # j /\ SameTask(i, j) /\ ReqEq(slots[i].key, asked[1])

\* C2: a slot that has not been removed is the entry of the map for its key, so
\* that the map holds one slot per key and no second slot is created for a key
\* before the first is removed; a caller that was told the slot existed holds
\* the slot of its own stage and key, created by another caller.
C2_OneSlotPerKey ==
    /\ \A i \in SlotIds :
         ~slots[i].removed =>
            /\ MapHas(tasks[slots[i].st], slots[i].key)
            /\ MapGet(tasks[slots[i].st], slots[i].key) = i
    /\ \A i, j \in SlotIds :
         (SameTask(i, j) /\ i # j) => (slots[i].removed \/ slots[j].removed)
    /\ \A t \in Calls : \A n \in 1..Len(stack[t]) :
         LET f == stack[t][n]
         IN  (f.slot # 0 /\ ~f.owner) =>
                /\ slots[f.slot].st = f.st
                /\ ReqEq(slots[f.slot].key, f.req)
                /\ slots[f.slot].owner # t

\* C2, the case: a caller waits on a slot another caller owns, while a third
\* call is about to ask for the same key.
C2_Witness ==
    \E t, u \in Calls :
        /\ Running(t) /\ Top(t).pc = "wait" /\ ~slots[Top(t).slot].removed
        /\ Running(u) /\ Top(u).pc = "gc" /\ Top(u).st = Top(t).st
        /\ ReqEq(Top(u).req, Top(t).req)

C4_WaitersSeeOwner ==
    \A i \in SlotIds :
        slots[i].got # {} =>
            /\ slots[i].isset /\ slots[i].stored
            /\ slots[i].got = {slots[i].value}
            /\ slots[i].ownerDone => slots[i].ownres = slots[i].value

\* C4, the case: a waiter and the owner of a slot have both returned an image.
C4_Witness ==
    \E i \in SlotIds :
        /\ slots[i].got # {} /\ slots[i].ownerDone /\ slots[i].ownres.k = "val"

\* C4, the case of an absence: the owner of a cache_only imageable request and
\* a waiter have both returned None.
C4_WitnessNone ==
    \E i \in SlotIds :
        /\ slots[i].got = {NoneRes} /\ slots[i].ownerDone
        /\ slots[i].key["_cache_only"]

\* C5: once the owner of a transformer slot whose inner source failed has left,
\* the slot holds that error, is removed and signalled, the owner has raised
\* that error, and its waiters have raised nothing else.
C5_InnerFailure ==
    \A i \in SlotIds :
        (slots[i].innerErr # "" /\ slots[i].ownerDone) =>
            /\ slots[i].st \in Transformers
            /\ slots[i].value = Err(slots[i].innerErr)
            /\ slots[i].ownres = Err(slots[i].innerErr)
            /\ slots[i].removed /\ slots[i].isset
            /\ ~MapHas(tasks[slots[i].st], slots[i].key) \/
                    MapGet(tasks[slots[i].st], slots[i].key) # i
            /\ slots[i].got \subseteq {Err(slots[i].innerErr)}

\* C5, the case: the inner source failed, the owner has raised and a waiter
\* has raised the same error.
C5_Witness ==
    \E i \in SlotIds :
        /\ slots[i].innerErr # "" /\ slots[i].ownerDone
        /\ slots[i].got = {Err(slots[i].innerErr)}

\* C6 as claimed: once the owner of a slot has left get_image, with a result or
\* with a failure, the slot is removed from the map and signalled.
C6_NoSlotStaysPending ==
    \A i \in SlotIds :
        slots[i].ownerDone => (slots[i].removed /\ slots[i].isset)

\* C7 as claimed: no call is handed a promise that had already failed, and no
\* get_condition returns a slot that its owner has left without signalling it.
C7_RetryAfterFailure ==
    /\ \A t \in Calls : ~hitFailed[t]
    /\ ~deadGet

\* The nine fields, by attribute.
SameFields(a, b, attrs) == \A k \in attrs : a[k] = b[k]
FlagAttrs == {"_save", "_cache_only", "_allow_disk_cached"}

\* C8: two requests are equal exactly when the nine fields are; equal requests
\* have the same hash, name and path; requests that differ in save, cache_only
\* and allow_disk_cached only have the same name and path.
C8_Identity ==
    /\ ReqEq(ra, rb) <=> SameFields(ra, rb, Attrs)
    /\ ReqEq(ra, rb) =>
         /\ ReqHash(ra) = ReqHash(rb)
         /\ Name(ra) = Name(rb)
         /\ Path(ra) = Path(rb)
    /\ SameFields(ra, rb, Attrs \ FlagAttrs) =>
         /\ Name(ra) = Name(rb)
         /\ Path(ra) = Path(rb)

\* C8, the case: a second request that differs from the first in a caching
\* flag only: unequal, with the same name and path.
C8_Witness ==
    /\ rop = "construct"
    /\ ~ReqEq(ra, rb)
    /\ SameFields(ra, rb, Attrs \ FlagAttrs)
    /\ Path(ra).exc = "" /\ Path(ra) = Path(rb)

\* The attribute behind a field of the request, named as the constructor and
\* the specification name it, or as the property names it.
FieldAttr(key) ==
    IF key \in {"picture_name", "pictured_name"} THEN "_pictured_name"
    ELSE "_" \o key

\* C9 as claimed: the request spawn returns has the overriding value in every
\* overridden field and the receiver's value in every other, and the receiver
\* is what it was when constructed: fields, hash and path.
C9_SpawnOverrides ==
    rop = "spawn" =>
        /\ \A key \in DOMAIN kw : rb[FieldAttr(key)] = kw[key]
        /\ \A k \in Attrs \ {FieldAttr(key) : key \in DOMAIN kw} : rb[k] = ra0[k]
        /\ SameFields(ra, ra0, Attrs) /\ DOMAIN ra = Attrs
        /\ ReqHash(ra) = ReqHash(ra0)
        /\ Path(ra) = Path(ra0)

\* C9, restricted to the keywords that name an attribute (the ones the
\* transformers pass, crop and size_slug, among them).
C9_SpawnAttributes ==
    (rop = "spawn" /\ "picture_name" \notin DOMAIN kw) =>
        /\ \A key \in DOMAIN kw : rb[FieldAttr(key)] = kw[key]
        /\ \A k \in Attrs \ {FieldAttr(key) : key \in DOMAIN kw} : rb[k] = ra0[k]
        /\ SameFields(ra, ra0, Attrs) /\ DOMAIN ra = Attrs
        /\ ReqHash(ra) = ReqHash(ra0)
        /\ Path(ra) = Path(ra0)

\* C10 as claimed: the size looked up is the ORIGINAL size of the crop value
\* times the scale, rounded, in both dimensions.
C10_RoundedTable ==
    rop = "get_size" =>
        sz.size = <<Round(OriginalSize(sz.crop)[1] * ScalePct(sz.slug), 100),
                    Round(OriginalSize(sz.crop)[2] * ScalePct(sz.slug), 100)>>

\* C10 as amended: the size looked up is the ORIGINAL size of the crop value,
\* (745, 1040) uncropped and (560, 435) cropped, times the scale, truncated to
\* an integer: the largest integer not above the product, in both dimensions.
C10_TruncatedTable ==
    rop = "get_size" =>
        /\ OriginalSize(sz.crop) = (IF sz.crop THEN <<560, 435>> ELSE <<745, 1040>>)
        /\ \A d \in 1..2 :
             /\ sz.size[d] * 100 <= OriginalSize(sz.crop)[d] * ScalePct(sz.slug)
             /\ OriginalSize(sz.crop)[d] * ScalePct(sz.slug) < (sz.size[d] + 1) * 100

\* C10, the case: THUMBNAIL uncropped is (111, 156), where 745 * .15 = 111.75.
C10_Witness ==
    /\ rop = "get_size" /\ sz.slug = "THUMBNAIL" /\ ~sz.crop
    /\ sz.size = <<111, 156>>

\* The identifier of a request as the name format states it: the caller's
\* picture name, else the imageable's declared name, else the printing's id.
StatedIdentifier(r) ==
    IF r["_pictured_name"] # None THEN r["_pictured_name"][1]
    ELSE IF r["_pictured"].kind = "Imageable" THEN r["_pictured"].name
    ELSE ToString(r["_pictured"].id)

\* A printing with the id 12345 that has a back face.
Printing12345TwoFaced == [Printing1 EXCEPT !.back = TRUE]

\* C11: the name of a request, wherever it has one, is the identifier, "_b" for
\* a back, "_crop" for a crop, "_" and the size code for a tier other than
\* ORIGINAL, and ".png", with "cardback" in place of identifier and "_b" when
\* has_image is false; printing 12345 is named 12345.png, 12345_b.png as a back
\* and 12345_crop_s.png cropped at SMALL.
C11_NameFormat ==
    /\ Name(ra).exc = "" =>
         Name(ra).v =
            (IF has_image(ra)
                THEN StatedIdentifier(ra) \o (IF ra["_back"] THEN "_b" ELSE "")
                ELSE "cardback")
            \o (IF ra["_crop"] THEN "_crop" ELSE "")
            \o (IF ra["_size_slug"] = "ORIGINAL" THEN ""
                ELSE "_" \o Code(ra["_size_slug"]))
            \o ".png"
    /\ Name(NewImageRequest(PlainArgs)).v = "12345.png"
    /\ Name(NewImageRequest([PlainArgs EXCEPT !.pictured = Printing12345TwoFaced,
                                              !.back = TRUE])).v = "12345_b.png"
    /\ Name(NewImageRequest([PlainArgs EXCEPT !.crop = TRUE,
                                              !.size_slug = "SMALL"])).v
            = "12345_crop_s.png"

\* C11, the case: a request for the back of a printing that has none, cropped,
\* at THUMBNAIL, with no picture name: it is named after the card back.
C11_Witness ==
    /\ rop = "init"
    /\ ra["_pictured"] = Printing1 /\ ra["_back"] /\ ra["_crop"]
    /\ ra["_size_slug"] = "THUMBNAIL" /\ ra["_pictured_name"] = None
    /\ Name(ra) = Returns("cardback_crop_t.png")

\* The chain as the builder is stated to assemble it, outermost first: the
\* root, in Cropper iff crop, in ReSizer iff the tier is not ORIGINAL, in
\* CacheOnly iff cache_only.
StatedChain(r) ==
    (IF r["_cache_only"] THEN <<"CacheOnly">> ELSE <<>>)
    \o (IF r["_size_slug"] # "ORIGINAL" THEN <<"ReSizer">> ELSE <<>>)
    \o (IF r["_crop"] THEN <<"Cropper">> ELSE <<>>)
    \o (IF r["_pictured"].kind = "Imageable"
            THEN <<"ImageableProcessor">> ELSE <<"Fetcher">>)

\* C12 as claimed: for every request, imageable subjects included, the builder
\* assembles the root wrapped in Cropper iff crop, in ReSizer iff the tier is
\* not ORIGINAL and in CacheOnly iff cache_only.
C12_ChainForEveryRequest ==
    rop = "get_pipeline" => built.pipeline = StatedChain(ra)

\* C12 as amended: for a subject that is not an imageable get_pipeline
\* assembles Fetcher wrapped in Cropper iff crop, in ReSizer iff the tier is not
\* ORIGINAL and in CacheOnly iff cache_only; for an imageable it returns
\* ImageableProcessor alone, whatever crop, size_slug and cache_only are.  The
\* Loader of load.py builds the same chains without CacheOnly.
C12_ChainByBuilder ==
    rop = "get_pipeline" =>
        /\ ra["_pictured"].kind # "Imageable" =>
              /\ built.pipeline = StatedChain(ra)
              /\ built.load = SelectSeq(StatedChain(ra), LAMBDA st : st # "CacheOnly")
        /\ ra["_pictured"].kind = "Imageable" =>
              /\ built.pipeline = <<"ImageableProcessor">>
              /\ built.load = <<"ImageableProcessor">>

\* C12, the case: a cropped, resized, cache_only request for a printing.
C12_Witness ==
    /\ rop = "get_pipeline"
    /\ built.pipeline = <<"CacheOnly", "ReSizer", "Cropper", "Fetcher">>
    /\ built.load = <<"ReSizer", "Cropper", "Fetcher">>

\* C12, the other case: a cropped, resized, cache_only request for an imageable.
C12_WitnessImageable ==
    /\ rop = "get_pipeline"
    /\ ra["_pictured"].kind = "Imageable" /\ ra["_crop"] /\ ra["_cache_only"]
    /\ ra["_size_slug"] # "ORIGINAL"
    /\ built.pipeline = <<"ImageableProcessor">>

\* The events ev of a task's trace, in order.
Events(t, ev) == SelectSeq(trace[t], LAMBDA e : e.ev = ev)

\* Call t is the last call made so far.
LastCall(t) == t = NumCalls \/ outcome[t + 1].k = "idle"

\* A request for a printing that has the face asked for and no picture name.
PlainPrinting(r) ==
    /\ r["_pictured"].kind = "Printing" /\ r["_pictured_name"] = None
    /\ has_image(r)

\* C13: a cold request for printing 12345 with crop, SMALL and save that has
\* returned an image has written 12345.png in Fetcher, 12345_crop.png in Cropper
\* and 12345_crop_s.png in ReSizer, in that order and nothing else; these are
\* the files that are new on disk; the image returned is 168 by 130.
C13_ThreeFiles ==
    \A t \in Calls :
        (/\ PlainPrinting(asked[t]) /\ asked[t]["_crop"]
         /\ asked[t]["_size_slug"] = "SMALL" /\ asked[t]["_save"]
         /\ seen[t] = {} /\ outcome[t].k = "val")
        => /\ Events(t, "write") =
                <<[st |-> "Fetcher", ev |-> "write", path |-> "images/12345.png"],
                  [st |-> "Cropper", ev |-> "write", path |-> "images/12345_crop.png"],
                  [st |-> "ReSizer", ev |-> "write", path |-> "images/12345_crop_s.png"]>>
           /\ LastCall(t) =>
                DOMAIN disk = {"images/12345.png", "images/12345_crop.png",
                               "images/12345_crop_s.png"}
           /\ outcome[t].img.size = <<168, 130>>
           /\ outcome[t].img.cropped

\* C13, the case: the first call, cold, for the cropped SMALL image has
\* returned it and three files are on disk.
C13_Witness ==
    /\ seq /\ asked[1]["_crop"] /\ asked[1]["_size_slug"] = "SMALL"
    /\ asked[1]["_save"] /\ outcome[1].k = "val" /\ outcome[2].k = "idle"
    /\ Cardinality(DOMAIN disk) = 3

\* C14: the request a Cropper has called its inner source with is its own with
\* crop false, the one a ReSizer has called it with is its own with size_slug
\* ORIGINAL, every other field as it was, and the request a Fetcher works on
\* has crop false and size_slug ORIGINAL.
C14_UpstreamRequest ==
    \A t \in Calls : \A n \in 1..Len(stack[t]) :
        LET f == stack[t][n]
        IN  /\ DOMAIN f.req = Attrs
            /\ f.st = "Fetcher" =>
                  (~f.req["_crop"] /\ f.req["_size_slug"] = "ORIGINAL")
            /\ n > 1 =>
                  LET up == stack[t][n - 1]
                  IN  /\ up.st = "Cropper" =>
                            f.req = [up.req EXCEPT !["_crop"] = FALSE]
                      /\ up.st = "ReSizer" =>
                            f.req = [up.req EXCEPT !["_size_slug"] = "ORIGINAL"]
                      /\ SameFields(f.req, up.req, Attrs \ {"_crop", "_size_slug"})

\* C14, the case: the Fetcher of a cropped SMALL request that does not save,
\* is cache_only and does not allow the disk cache works on that request with
\* crop false and size_slug ORIGINAL.
C14_Witness ==
    \E t \in Calls :
        /\ Len(stack[t]) = 4
        /\ stack[t][1].st = "CacheOnly" /\ stack[t][2].st = "ReSizer"
        /\ stack[t][3].st = "Cropper" /\ stack[t][4].st = "Fetcher"
        /\ stack[t][1].req["_crop"] /\ stack[t][1].req["_size_slug"] = "SMALL"
        /\ ~stack[t][1].req["_save"] /\ ~stack[t][1].req["_allow_disk_cached"]
        /\ stack[t][4].req =
                [stack[t][1].req EXCEPT !["_crop"] = FALSE,
                                        !["_size_slug"] = "ORIGINAL"]
        /\ stack[t][4].pc = "save"

\* C15: a call for a request with cache_only and save that has completed
\* without a failure resolved to an absence, and the file of the request's path
\* is on the disk.
C15_CacheOnlyStores ==
    \A t \in Calls :
        (/\ Done(t)
         /\ asked[t]["_cache_only"] /\ asked[t]["_save"]
         /\ outcome[t].k # "err")
        => /\ outcome[t].k = "none"
           /\ Path(asked[t]).v \in DOMAIN disk

\* The path of the ORIGINAL uncropped image of the request's printing and face.
OriginalPath(r) ==
    Path([r EXCEPT !["_crop"] = FALSE, !["_size_slug"] = "ORIGINAL"]).v

\* C16: a call for a printing face with allow_disk_cached, made when the
\* ORIGINAL uncropped file of that printing face had been written by an earlier
\* completed call, makes no network request, whatever its crop, size, save and
\* cache_only.
C16_WarmNoNetwork ==
    \A t \in Calls :
        (/\ PlainPrinting(asked[t]) /\ asked[t]["_allow_disk_cached"]
         /\ OriginalPath(asked[t]) \in seen[t])
        => Events(t, "net") = <<>>

\* C16, the case: after a cache_only warm-up has written the ORIGINAL file, a
\* second call for the cropped SMALL image, whose own file was not there, has
\* returned the image, produced from the disk without a network request.
C16_Witness ==
    /\ seq /\ asked[1]["_cache_only"] /\ outcome[1].k = "none"
    /\ PlainPrinting(asked[2]) /\ asked[2]["_allow_disk_cached"]
    /\ asked[2]["_crop"] /\ asked[2]["_size_slug"] = "SMALL"
    /\ seen[2] = {OriginalPath(asked[2])}
    /\ outcome[2].k = "val"
    /\ Events(2, "net") = <<>>
    /\ Len(Events(2, "read")) = 3

\* The slots task t has created.
OwnedSlots(t) == {i \in DOMAIN slots : slots[i].owner = t}

\* The sources of a request's pipeline that keep slots.
StagesOf(r) == SelectSeq(get_pipeline(r), LAMBDA st : st \in Stages)

\* C17: in pipeline.py a call for a printing request with allow_disk_cached
\* false reads no file in any of Fetcher, Cropper and ReSizer; once it has
\* completed it has made the remote fetch, whatever files were there when it
\* was made, and when it did not fail each of its stages has gone through
\* get_condition and owned a slot.
C17_NoDiskRead ==
    \A t \in Calls :
        (/\ impl = "pipeline"
         /\ asked[t]["_pictured"].kind = "Printing"
         /\ ~asked[t]["_allow_disk_cached"])
        => /\ Events(t, "read") = <<>>
           /\ Done(t) => Len(Events(t, "net")) = 1
           /\ (Done(t) /\ outcome[t].k # "err") =>
                 Cardinality(OwnedSlots(t)) = Len(StagesOf(asked[t]))

\* C17, the case: a call for the cropped SMALL image with allow_disk_cached
\* false, made when the three files were on disk, has returned the image after
\* a remote fetch and without reading a file.
C17_Witness ==
    /\ seq /\ impl = "pipeline"
    /\ PlainPrinting(asked[2]) /\ ~asked[2]["_allow_disk_cached"]
    /\ asked[2]["_crop"] /\ asked[2]["_size_slug"] = "SMALL"
    /\ Cardinality(seen[2]) = 3 /\ Path(asked[2]).v \in seen[2]
    /\ outcome[2].k = "val"
    /\ Len(Events(2, "net")) = 1 /\ Events(2, "read") = <<>>
    /\ Cardinality(OwnedSlots(2)) = 3

\* C18: in pipeline.py a call for an imageable request with allow_disk_cached
\* false that has completed without a failure has read no file, has rendered
\* the imageable and, when the request saves, has written the request's path,
\* cache_only or not.
C18_ImageableProduces ==
    \A t \in Calls :
        (/\ impl = "pipeline"
         /\ asked[t]["_pictured"].kind = "Imageable"
         /\ ~asked[t]["_allow_disk_cached"]
         /\ Done(t) /\ outcome[t].k # "err")
        => /\ Events(t, "read") = <<>>
           /\ Len(Events(t, "render")) = 1
           /\ asked[t]["_save"] =>
                 \E i \in 1..Len(trace[t]) :
                     /\ trace[t][i].ev = "write"
                     /\ trace[t][i].path = Path(asked[t]).v

\* C18, ordinary requests: what C18 says of the requests without cache_only.
C18_OrdinaryProduces ==
    \A t \in Calls :
        (/\ impl = "pipeline"
         /\ asked[t]["_pictured"].kind = "Imageable"
         /\ ~asked[t]["_allow_disk_cached"] /\ ~asked[t]["_cache_only"]
         /\ Done(t) /\ outcome[t].k # "err")
        => /\ Events(t, "read") = <<>>
           /\ Len(Events(t, "render")) = 1
           /\ asked[t]["_save"] =>
                 \E i \in 1..Len(trace[t]) :
                     /\ trace[t][i].ev = "write"
                     /\ trace[t][i].path = Path(asked[t]).v

\* C19: a call that has failed has failed with ImageFetchException: its
\* promise is rejected with that and with nothing else.
C19_OnlyImageFetchError ==
    \A t \in Calls :
        outcome[t].k = "err" => outcome[t].err = "ImageFetchException"

\* A printing request Fetcher has nothing to fetch for: it carries a picture
\* name, or the printing has no image of the face asked for.
NothingToFetch(r) ==
    /\ r["_pictured"].kind = "Printing"
    /\ r["_pictured_name"] # None \/ ~has_image(r)

\* What C20 says of call t.
NeverFetched(t) ==
    /\ Events(t, "net") = <<>>
    /\ OwnedSlots(t) = {}
    /\ (Done(t) /\ Path(asked[t]).v \notin seen[t]) =>
          outcome[t] = Err("ImageFetchException")

\* C20: a call for a request with a picture name, or without an image, makes
\* no network request and creates no slot, and when the file was not on disk
\* it fails with ImageFetchException, whatever allow_disk_cached is.
C20_NoFetchWithoutImage ==
    \A t \in Calls : NothingToFetch(asked[t]) => NeverFetched(t)

\* C20, where the disk is looked at: the same of the calls in load.py and of
\* those in pipeline.py with allow_disk_cached.
C20_NoFetchDiskAllowed ==
    \A t \in Calls :
        (NothingToFetch(asked[t]) /\ DiskGate(asked[t])) => NeverFetched(t)

\* The uri C21 states: the png of the last of card_faces for a back and of the
\* first otherwise when the layout is TRANSFORM or MODAL, else the png of the
\* working card.
StatedUri(c) ==
    IF c.layout \in {"TRANSFORM", "MODAL"}
    THEN (IF c.back THEN "face" \o ToString(c.faces) \o ".png" ELSE "face1.png")
    ELSE (IF c.layout = "MELD" /\ c.back /\ c.part THEN "part.png" ELSE "card.png")

\* C21: the fetcher of fetch.py and the fetcher of load.py download the image
\* from the png of the last card face (back) or the first (front) for the
\* layouts TRANSFORM and MODAL, and from the png of the working card for every
\* other layout.
C21_FaceSelection ==
    cout.op = "fetch" =>
        /\ cout.uri = StatedUri(cin)
        /\ cout.load_uri = StatedUri(cin)

\* C21, fetch.py: get_scryfall_image downloads from the uri stated.
C21_FetchPySelection ==
    cout.op = "fetch" => cout.uri = StatedUri(cin)

\* C22: crop returns an image of 560 by 435 in every branch of its dispatch,
\* for the 745 by 1040 input and for any other.
C22_CroppedSize ==
    cout.op = "crop" => cout.size = <<560, 435>>

\* Branch b of crop has cut a 745 by 1040 image to 560 by 435.
CroppedIn(b) ==
    /\ cout.op = "crop" /\ cout.branch = b
    /\ cin.size = <<745, 1040>> /\ cout.size = <<560, 435>>

\* C22, the case: the two halves of a split card have been cut to 560 by 435.
C22_Witness == CroppedIn("split")

\* C22, the fallback: a printing of a layout crop does not name.
C22_WitnessFallback ==
    CroppedIn("fallback") /\ cin.subject = "Printing" /\ cin.layout = "ADVENTURE"

\* C23: whoever holds the lock of a stage's TaskAwaiter is inside that stage's
\* get_condition, between the lookup that missed and the insertion (del_key
\* takes and releases it in one step): no frame that waits on a slot, has
\* called its inner source, renders, fetches or writes holds it.
C23_LockOnlyAroundMap ==
    \A st \in Stages :
        lock[st] # 0 =>
            /\ Running(lock[st])
            /\ Top(lock[st]).st = st
            /\ Top(lock[st]).pc = "gc_new"

\* C23, the case: while one task waits on a slot of a stage and another is at
\* the owner's work on it, a third is inside get_condition of the same stage
\* and holds the lock.
C23_Witness ==
    \E t, u, w \in Calls :
        /\ Running(t) /\ Running(u) /\ Running(w)
        /\ Top(t).pc = "wait" /\ Top(u).pc = "gc_new"
        /\ Top(u).st = Top(t).st /\ lock[Top(t).st] = u
        /\ \E n \in 1..Len(stack[w]) :
              /\ stack[w][n].st = Top(t).st
              /\ stack[w][n].owner
              /\ stack[w][n].pc \in {"work", "inner", "save"}

\* C24: a call for an imageable with cache_only and allow_disk_cached, made
\* when the file of its path existed, renders nothing, writes nothing, takes
\* no slot, and resolves to an absence.
C24_WarmCacheOnly ==
    \A t \in Calls :
        (/\ asked[t]["_pictured"].kind = "Imageable"
         /\ asked[t]["_cache_only"] /\ asked[t]["_allow_disk_cached"]
         /\ Path(asked[t]).v \in seen[t])
        => /\ Events(t, "render") = <<>>
           /\ Events(t, "write") = <<>>
           /\ OwnedSlots(t) = {}
           /\ \A n \in 1..Len(stack[t]) : stack[t][n].slot = 0
           /\ Done(t) => outcome[t] = NoneRes

\* C24, the case: the first call rendered and wrote the file, the second,
\* cache_only, has resolved to an absence with the file as it was.
C24_Witness ==
    /\ seq /\ outcome[1].k = "val" /\ Len(Events(1, "write")) = 1
    /\ asked[2]["_pictured"].kind = "Imageable"
    /\ asked[2]["_cache_only"] /\ asked[2]["_allow_disk_cached"]
    /\ Path(asked[2]).v \in seen[2]
    /\ outcome[2] = NoneRes
    /\ trace[2] = <<[st |-> "ImageableProcessor", ev |-> "read",
                     path |-> Path(asked[2]).v]>>

\* Slot i has left the map after its owner published a value, not a failure,
\* for a request that saves.
PublishedSaved(i) ==
    /\ slots[i].removed /\ slots[i].stored /\ slots[i].value.k # "err"
    /\ slots[i].key["_save"]

\* The file of every slot that was published and removed exists.
FileBeforePublication ==
    \A i \in SlotIds : PublishedSaved(i) => Path(slots[i].key).v \in DOMAIN disk

\* A call that looks at the disk for a request some slot was published and
\* removed for returns from the disk check: it goes for no slot.
HitAfterPublication ==
    \A t \in Calls :
        (/\ Running(t) /\ Top(t).pc = "start" /\ Top(t).st \in Stages
         /\ DiskGate(Top(t).req)
         /\ \E i \in SlotIds :
               /\ PublishedSaved(i) /\ slots[i].st = Top(t).st
               /\ ReqEq(slots[i].key, Top(t).req)
         /\ stack'[t] # stack[t])
        => /\ Len(stack'[t]) = Len(stack[t]) - 1
           /\ slots' = slots /\ tasks' = tasks
           /\ Len(stack[t]) = 1 => outcome'[t].k \in {"val", "none"}

\* C25: the owner of a request that saves has written the request's path when
\* set_value removes the slot, and a disk check made after that, by a request
\* that may use the disk, finds the file and starts no task.
C25_FileBeforePublication ==
    []FileBeforePublication /\ [][HitAfterPublication]_vars

\* C25, the case: a call made when the disk was empty has returned the image
\* without a slot of its own, from the file another call's owner had written
\* before it published.
C25_Witness ==
    \E t, u \in Calls :
        /\ t # u /\ seen[u] = {} /\ outcome[u].k = "val"
        /\ asked[u]["_save"] /\ DiskGate(asked[u])
        /\ OwnedSlots(u) = {}
        /\ trace[u] = <<[st |-> "Fetcher", ev |-> "read", path |-> Path(asked[u]).v]>>
        /\ \E i \in SlotIds :
              /\ PublishedSaved(i) /\ slots[i].owner = t
              /\ ReqEq(slots[i].key, asked[u]) /\ slots[i].got = {}

\* The frames of stage st on the stacks: <<task, depth>>.
FramesOf(st) ==
    UNION {{<<t, n>> : n \in {m \in 1..Len(stack[t]) : stack[t][m].st = st}} :
            t \in Calls}

\* C26: each stage kind has one map of its own: every entry of a stage's map
\* is a slot of that stage under its own key; the Cropper frames of the
\* pipelines for two tiers of one cropped printing have equal requests; a
\* Cropper frame that found the slot of another is the innermost frame of its
\* task, waits, and its task has made no remote fetch.
C26_PerStageMaps ==
    /\ \A st \in Stages : \A k \in DOMAIN tasks[st] :
          /\ slots[tasks[st][k]].st = st
          /\ ReqEq(slots[tasks[st][k]].key, k)
    /\ \A f, g \in FramesOf("Cropper") :
          SameFields(asked[f[1]], asked[g[1]], Attrs \ {"_size_slug"})
          => ReqEq(stack[f[1]][f[2]].req, stack[g[1]][g[2]].req)
    /\ \A f \in FramesOf("Cropper") :
          LET fr == stack[f[1]][f[2]]
          IN  (fr.slot # 0 /\ ~fr.owner) =>
                /\ f[2] = Len(stack[f[1]])
                /\ fr.pc = "wait"
                /\ Events(f[1], "net") = <<>>

\* C26, the case: the pipeline for crop and MEDIUM waits in Cropper on the
\* slot of the pipeline for crop and SMALL, whose Fetcher has fetched.
C26_Witness ==
    \E t, u \in Calls :
        /\ asked[t] = ReqCropSmall /\ asked[u] = ReqCropMedium
        /\ Running(t) /\ Running(u)
        /\ Top(u).st = "Cropper" /\ Top(u).pc = "wait"
        /\ slots[Top(u).slot].owner = t
        /\ Top(t).st = "Fetcher" /\ Top(t).pc = "save"
        /\ Len(Events(t, "net")) = 1 /\ Events(u, "net") = <<>>

\* Frames of two tasks at one stage, both with a slot, for requests of one
\* path that differ in save, cache_only or allow_disk_cached only.
SamePathFrames(f, g) ==
    /\ f.st = g.st /\ f.slot # 0 /\ g.slot # 0
    /\ ~SameFields(f.req, g.req, FlagAttrs)
    /\ SameFields(f.req, g.req, Attrs \ FlagAttrs)

\* C27: two such frames have separate slots under keys that differ, each
\* slot is the one of its frame's request, and the slots have different
\* owners; an owner of a Fetcher slot that has completed has fetched.
C27_KeyedOnDescriptor ==
    /\ \A t, u \in Calls : \A n \in 1..Len(stack[t]) : \A m \in 1..Len(stack[u]) :
          (t # u /\ SamePathFrames(stack[t][n], stack[u][m]))
          => /\ Path(stack[t][n].req) = Path(stack[u][m].req)
             /\ stack[t][n].slot # stack[u][m].slot
             /\ slots[stack[t][n].slot].key = stack[t][n].req
             /\ slots[stack[u][m].slot].key = stack[u][m].req
             /\ slots[stack[t][n].slot].owner # slots[stack[u][m].slot].owner
    /\ \A t \in Calls :
          (Done(t) /\ \E i \in OwnedSlots(t) : slots[i].st = "Fetcher")
          => Len(Events(t, "net")) = 1

\* C27, the case: two calls made on an empty disk, one allowing the disk
\* cache and one not, have each owned a Fetcher slot, fetched, and written
\* the one path.
C27_Witness ==
    \E t, u \in Calls :
        /\ asked[t] = ReqPlain /\ asked[u] = ReqNoDisk
        /\ seen[t] = {} /\ seen[u] = {}
        /\ outcome[t].k = "val" /\ outcome[u].k = "val"
        /\ \E i \in OwnedSlots(t), j \in OwnedSlots(u) :
              /\ i # j /\ slots[i].st = "Fetcher" /\ slots[j].st = "Fetcher"
              /\ slots[i].got = {} /\ slots[j].got = {}
        /\ Len(Events(t, "net")) = 1 /\ Len(Events(u, "net")) = 1
        /\ Events(t, "write") =
             <<[st |-> "Fetcher", ev |-> "write", path |-> Path(ReqPlain).v]>>
        /\ Events(u, "write") = Events(t, "write")

\* C27, both in flight: the two owners are at the fetch at the same time.
C27_WitnessOverlap ==
    \E t, u \in Calls :
        /\ asked[t] = ReqPlain /\ asked[u] = ReqNoSave
        /\ Running(t) /\ Running(u)
        /\ Top(t).st = "Fetcher" /\ Top(t).owner /\ Top(t).pc = "work"
        /\ Top(u).st = "Fetcher" /\ Top(u).owner /\ Top(u).pc = "work"

\* C29: a call for a printing's image with save true, made on an empty disk
\* whether or not the images root exists, with no fault of the disk or the
\* network, returns the image, and every stage of its pipeline has written its
\* file into the images root.
C29_ColdRootWrites ==
    (/\ seq /\ PlainPrinting(asked[1]) /\ asked[1]["_save"]
     /\ ~asked[1]["_cache_only"] /\ seen[1] = {}
     /\ Done(1) /\ outcome[2].k = "idle" /\ faults = 0)
    => /\ outcome[1].k = "val"
       /\ IMAGES_PATH \in dirs
       /\ \A n \in 1..Len(StagesOf(asked[1])) :
             \E m \in 1..Len(Events(1, "write")) :
                 Events(1, "write")[m].st = StagesOf(asked[1])[n]

\* C29, where it does hold: with the Fetcher of load.py, which creates the
\* directory, the call made without the images root writes every file.
C29_LoadPyColdRoot ==
    (/\ seq /\ impl = "load" /\ PlainPrinting(asked[1]) /\ asked[1]["_save"]
     /\ seen[1] = {} /\ Done(1) /\ outcome[2].k = "idle" /\ faults = 0)
    => /\ outcome[1].k = "val"
       /\ IMAGES_PATH \in dirs

\* A task that cannot take a step until another task does: it was submitted
\* and every worker is taken, its render waits for a nested call that has not
\* finished, or it waits on a slot that is not set.
Blocked(t) ==
    /\ Running(t)
    /\ \/ Top(t).pc = "queued" /\ Cardinality(Workers) >= pool
       \/ Top(t).pc = "nested" /\ ~Done(Top(t).sub)
       \/ Top(t).pc = "wait" /\ ~slots[Top(t).slot].isset

\* Every worker of the pool is blocked while a submitted task waits for a
\* worker.
Starved ==
    /\ pool > 0
    /\ \E t \in Calls : Running(t) /\ Top(t).pc = "queued"
    /\ \A t \in Calls : Running(t) => Blocked(t)

\* C28: with an imageable whose render asks the loader for one image of a
\* leaf imageable, the workers of the bounded imageable pool are never all
\* blocked while a nested request waits for a worker, and no task waits on a
\* slot it owns itself.
C28_NestedCompletes ==
    /\ ~Starved
    /\ \A t \in Calls :
          (Running(t) /\ Top(t).pc = "wait") => slots[Top(t).slot].owner # t

\* C28, the part that holds: no task waits on a slot it owns itself.
C28_NoSelfWait ==
    \A t \in Calls :
        (Running(t) /\ Top(t).pc = "wait") => slots[Top(t).slot].owner # t

\* The composition call t ran, read from the slots it has owned: the Cropper
\* outside was keyed by a request with a tier, the Cropper inside by one with
\* tier ORIGINAL.
CropperOutside(t) ==
    \E i \in OwnedSlots(t) :
        slots[i].st = "Cropper" /\ slots[i].key["_size_slug"] # "ORIGINAL"
CropperInside(t) ==
    \E i \in OwnedSlots(t) :
        slots[i].st = "Cropper" /\ slots[i].key["_size_slug"] = "ORIGINAL"

\* The last file call t wrote is the one of its request's path.
WroteFinalPath(t) ==
    /\ Events(t, "write") # <<>>
    /\ Events(t, "write")[Len(Events(t, "write"))].path = Path(asked[t]).v

\* C30 as stated: a call with crop true and a tier, made on an empty disk with
\* either composition, that returns an image returns one of the size the
\* table gives for (tier, cropped), and has written it to the request's path
\* when it saves.
C30_OrderIrrelevant ==
    \A t \in Calls :
        (seen[t] = {} /\ outcome[t].k = "val")
        => /\ outcome[t].img.size = get_size(asked[t]["_size_slug"], TRUE)
           /\ asked[t]["_save"] => WroteFinalPath(t)

\* C30: both compositions write the final image to the request's path, but
\* only ReSizer(Cropper(Fetcher)) returns the size the table gives for
\* (tier, cropped); Cropper(ReSizer(Fetcher)) returns the 560x435 of the crop
\* box whatever the tier, and writes the uncropped tier's file on the way
\* where the other writes the cropped original's.
C30_OrderMatters ==
    \A t \in Calls :
        (seen[t] = {} /\ outcome[t].k = "val")
        => /\ outcome[t].img.cropped
           /\ asked[t]["_save"] => WroteFinalPath(t)
           /\ CropperInside(t) =>
                /\ outcome[t].img.size = get_size(asked[t]["_size_slug"], TRUE)
                /\ asked[t]["_save"] =>
                     Events(t, "write")[2].path =
                        Path(SpawnImageRequest("ReSizer", asked[t])).v
           /\ CropperOutside(t) =>
                /\ outcome[t].img.size = CROPPED_SIZE
                /\ outcome[t].img.size # get_size(asked[t]["_size_slug"], TRUE)
                /\ asked[t]["_save"] =>
                     Events(t, "write")[2].path =
                        Path(SpawnImageRequest("Cropper", asked[t])).v

\* C30, the case: a call for the cropped SMALL image on an empty disk with
\* the Cropper outside has returned a 560x435 image and written three files.
C30_Witness ==
    /\ outcome[1].k = "val"
    /\ CropperOutside(1) /\ asked[1]["_save"]
    /\ asked[1]["_size_slug"] = "SMALL"
    /\ outcome[1].img.size = <<560, 435>>
    /\ Len(Events(1, "write")) = 3

\* C30, the other composition: the Cropper inside, the image of the table's
\* size returned and three files written.
C30_WitnessInside ==
    /\ outcome[1].k = "val"
    /\ CropperInside(1) /\ asked[1]["_save"]
    /\ asked[1]["_size_slug"] = "SMALL"
    /\ outcome[1].img.size = <<168, 130>>
    /\ Len(Events(1, "write")) = 3

\* The name of the default image for the request's crop and tier.
CardbackName(r) ==
    "cardback" \o (IF r["_crop"] THEN "_crop" ELSE "")
    \o (IF Code(r["_size_slug"]) # "" THEN "_" \o Code(r["_size_slug"]) ELSE "")
    \o "." \o Extension

\* C31: for a request built with no pictured and no picture_name, has_image
\* returns false and does not raise, name returns a name that starts with
\* cardback, and dir_path returns the card-back directory.
C31_DefaultImage ==
    (rop = "init" /\ ra["_pictured"] = NoPictured /\ ra["_pictured_name"] = None)
    => /\ ~HasImageRaises(ra)
       /\ ~has_image(ra)
       /\ Name(ra) = Returns(CardbackName(ra))
       /\ DirPath(ra) = Returns(CARD_BACK_DIRECTORY_PATH)

\* C31, where the default image is denoted: a request for a face its subject
\* does not have, with no picture_name, has no image, is named cardback and
\* lies in the card-back directory.
C31_MissingFaceDefault ==
    (/\ rop = "init" /\ ra["_pictured"] # NoPictured
     /\ ra["_pictured_name"] = None /\ ~has_image(ra))
    => /\ ~HasImageRaises(ra)
       /\ Name(ra) = Returns(CardbackName(ra))
       /\ DirPath(ra) = Returns(CARD_BACK_DIRECTORY_PATH)

====
